---------------------------- MODULE Spec2Model ----------------------------
(***************************************************************************)
(* LLM usage-cost calculators (Anthropic, OpenAI, Google, Perplexity) and  *)
(* the model registry of the service-modules library.                      *)
(*                                                                         *)
(* Numbers.  The calculators compute in IEEE doubles; the model computes   *)
(* the same expressions in exact arithmetic.  A rate is held in units of   *)
(* 0.0025 dollars per million tokens (every rate of the catalogs is a      *)
(* multiple of it), so tokens * rate is a cost in units of 0.0025          *)
(* micro-dollars and one micro-dollar is UnitsPerMicroDollar cost units.   *)
(*                                                                         *)
(* Strings.  A model name is the sequence of its characters, so that       *)
(* startsWith, toLowerCase and the date-suffix pattern work on what the    *)
(* code works on.                                                          *)
(***************************************************************************)
EXTENDS Integers, Sequences, FiniteSets, TLC

VARIABLES provider, model, usage, result, query,
          env, loggerOptions, config, calls, lines, thrown,
          httpOptions, requests,
          delays, attempt, attemptErrors, invoked, timers, retryPc, retryResult,
          now, startTime, responseTimes, totalRequests, successfulRequests,
          healthResponse, recorded,
          batchArgs, batchPc, batchStart, batchPromises, results, batchTimers,
          batchOutcome

\* the arguments and results of the cost calculators and the registry queries
calcVars == <<provider, model, usage, result, query>>

\* the logger: LOG_LEVEL, the options and the config of createLogger
loggerSetup == <<env, loggerOptions, config>>

\* the logger in use: the calls of log made by the caller observed, the
\* console lines written, the error the last call threw
loggerVars == <<loggerSetup, calls, lines, thrown>>

\* the HTTP logging middleware: its options and the requests passing through
httpVars == <<httpOptions, requests>>

\* withRetry: its delays argument, its loop variable and error list, the
\* outcomes of the invocations of fn, the delays handed to setTimeout, where
\* the call stands and how it ended
retryVars ==
  <<delays, attempt, attemptErrors, invoked, timers, retryPc, retryResult>>

\* HealthMiddleware: the clock Date.now() reads, the fields of the object,
\* what its last call returned, and the recordRequest calls made since
\* construction or the last reset()
healthVars ==
  <<now, startTime, responseTimes, totalRequests, successfulRequests,
    healthResponse, recorded>>

\* countTokensAnthropicBatch: its arguments, where the call stands, the loop
\* variable, the promises of the batch awaited, the results array, the
\* delays handed to setTimeout, and how the call ended
batchVars ==
  <<batchArgs, batchPc, batchStart, batchPromises, results, batchTimers,
    batchOutcome>>

\* what the calculators and the registry never touch
serviceVars == <<loggerVars, httpVars, retryVars, healthVars, batchVars>>

vars == <<calcVars, serviceVars>>

-----------------------------------------------------------------------------
(* JavaScript values *)

\* a number value
Num(n) == [t |-> "number", v |-> n]

\* undefined: an absent field, an absent argument
Undefined == [t |-> "undefined", v |-> 0]

\* a value of the wrong type: a non-numeric string such as "abc"
NonNumber == [t |-> "string", v |-> 0]

\* true, false
Bool(b) == [t |-> "boolean", v |-> IF b THEN 1 ELSE 0]

\* typeof x === "number"
TypeofNumber(x) == x.t = "number"

\* x as a condition: if (x); a non-empty string is truthy, 0 and undefined are not
Truthy(x) == (x.t \in {"number", "boolean"} /\ x.v # 0) \/ x.t = "string"

\* x ?? d and x || d for a numeric or absent x (0 || 0 is 0)
OrDefault(x, d) == IF x.t = "undefined" THEN d ELSE x.v

\* a string value, held as its characters
Str(chars) == [t |-> "string", s |-> chars]

\* the model argument left out
UndefinedModel == [t |-> "undefined", s |-> <<>>]

\* !model: undefined or the empty string
Falsy(m) == m.t = "undefined" \/ m.s = <<>>

Max(a, b) == IF a >= b THEN a ELSE b

-----------------------------------------------------------------------------
(* Money *)

\* cost units in one millionth of a dollar: a rate unit is 25/10000 dollars
UnitsPerMicroDollar == 10000 \div 25

\* whole.frac4 dollars per million tokens (frac4 in ten-thousandths), in rate units
Usd(whole, frac4) ==
  whole * UnitsPerMicroDollar + (frac4 * UnitsPerMicroDollar) \div 10000

\* whole.frac4 dollars per thousand tokens or queries, in rate units
UsdPer1k(whole, frac4) ==
  ((whole * 10000 + frac4) * UnitsPerMicroDollar) \div 10

\* Math.round(x * 1000000) / 1000000; Math.round rounds half up
Round6(x) ==
  ((x + UnitsPerMicroDollar \div 2) \div UnitsPerMicroDollar) * UnitsPerMicroDollar

-----------------------------------------------------------------------------
(* Results of a call *)

NoResult == [kind |-> "none"]

\* throw new Error(...): what the message says, the usage field or result
\* field it names, the model name it carries and the IDs it lists
Throw(what, field, name, available) ==
  [kind |-> "error", type |-> "Error", what |-> what, field |-> field,
   name |-> name, available |-> available]

\* reading a property of undefined
TypeError ==
  [kind |-> "error", type |-> "TypeError", what |-> "TypeError", field |-> "",
   name |-> UndefinedModel, available |-> <<>>]

\* a returned cost breakdown; fields lists the properties the object has,
\* nan the ones that hold NaN (their number is then meaningless and 0)
Breakdown(input, output, total, queries, queryCost, fields, nan) ==
  [kind |-> "ok", input |-> input, output |-> output, total |-> total,
   webSearchQueries |-> queries, webSearchQueryCost |-> queryCost,
   fields |-> fields, nan |-> nan]

CostFields == {"input", "output", "total"}

WebSearchFields == {"webSearchQueries", "webSearchQueryCost"}

-----------------------------------------------------------------------------
(* Anthropic: registry *)

\* "claude-opus-4-6"
CLAUDE_OPUS_4_6 ==
  <<"c", "l", "a", "u", "d", "e", "-", "o", "p", "u", "s", "-", "4", "-", "6">>

\* "claude-sonnet-4-6"
CLAUDE_SONNET_4_6 ==
  <<"c", "l", "a", "u", "d", "e", "-", "s", "o", "n", "n", "e", "t", "-", "4", "-", "6">>

\* "claude-haiku-4-5-20251001"
CLAUDE_HAIKU_4_5_20251001 ==
  <<"c", "l", "a", "u", "d", "e", "-", "h", "a", "i", "k", "u", "-", "4", "-", "5", "-", "2", "0", "2", "5", "1", "0", "0", "1">>

ANTHROPIC_MODEL_IDS ==
  <<CLAUDE_OPUS_4_6, CLAUDE_SONNET_4_6, CLAUDE_HAIKU_4_5_20251001>>

\* a flat schedule has no over-200k rates: reading one gives undefined, and
\* the code never reads them when tiered is false
ANTHROPIC_MODELS ==
  << [id |-> CLAUDE_OPUS_4_6, supportsVision |-> TRUE,
      pricing |-> [tiered |-> TRUE,
                   inputBase |-> Usd(5, 0), inputBaseOver200k |-> Usd(10, 0),
                   output |-> Usd(25, 0), outputOver200k |-> Usd(37, 5000),
                   cacheWrite |-> Usd(6, 2500), cacheWriteOver200k |-> Usd(12, 5000),
                   cacheRead |-> Usd(0, 5000), cacheReadOver200k |-> Usd(1, 0),
                   batchInput |-> Usd(2, 5000), batchOutput |-> Usd(12, 5000)]],
     [id |-> CLAUDE_SONNET_4_6, supportsVision |-> TRUE,
      pricing |-> [tiered |-> TRUE,
                   inputBase |-> Usd(3, 0), inputBaseOver200k |-> Usd(6, 0),
                   output |-> Usd(15, 0), outputOver200k |-> Usd(22, 5000),
                   cacheWrite |-> Usd(3, 7500), cacheWriteOver200k |-> Usd(7, 5000),
                   cacheRead |-> Usd(0, 3000), cacheReadOver200k |-> Usd(0, 6000),
                   batchInput |-> Usd(1, 5000), batchOutput |-> Usd(7, 5000)]],
     [id |-> CLAUDE_HAIKU_4_5_20251001, supportsVision |-> TRUE,
      pricing |-> [tiered |-> FALSE,
                   inputBase |-> Usd(1, 0),
                   output |-> Usd(5, 0),
                   cacheWrite |-> Usd(1, 2500),
                   cacheRead |-> Usd(0, 1000),
                   batchInput |-> Usd(0, 5000), batchOutput |-> Usd(2, 5000)]] >>

\* an alias that maps to another alias
ANTHROPIC_ALIASES_Chained ==
  << [alias |-> <<"c", "l", "a", "u", "d", "e", "-", "o", "p", "u", "s", "-", "4", "-", "l", "a", "t", "e", "s", "t">>,
      id |-> <<"c", "l", "a", "u", "d", "e", "-", "s", "o", "n", "n", "e", "t", "-", "4", "-", "l", "a", "t", "e", "s", "t">>],
     [alias |-> <<"c", "l", "a", "u", "d", "e", "-", "s", "o", "n", "n", "e", "t", "-", "4", "-", "l", "a", "t", "e", "s", "t">>,
      id |-> CLAUDE_SONNET_4_6],
     [alias |-> <<"c", "l", "a", "u", "d", "e", "-", "h", "a", "i", "k", "u", "-", "4", "-", "5">>,
      id |-> CLAUDE_HAIKU_4_5_20251001] >>


ANTHROPIC_ALIASES ==
  << [alias |-> <<"c", "l", "a", "u", "d", "e", "-", "o", "p", "u", "s", "-", "4", "-", "l", "a", "t", "e", "s", "t">>, id |-> CLAUDE_OPUS_4_6],
     [alias |-> <<"c", "l", "a", "u", "d", "e", "-", "s", "o", "n", "n", "e", "t", "-", "4", "-", "l", "a", "t", "e", "s", "t">>, id |-> CLAUDE_SONNET_4_6],
     [alias |-> <<"c", "l", "a", "u", "d", "e", "-", "h", "a", "i", "k", "u", "-", "4", "-", "5">>, id |-> CLAUDE_HAIKU_4_5_20251001] >>

\* the first element of seq whose key is the name, as Array.prototype.find and
\* Map.prototype.get give it: <<x>>, or <<>> for undefined
Find(seq, key, name) ==
  LET hits == {i \in DOMAIN seq : Str(seq[i][key]) = name}
  IN  IF hits = {} THEN <<>>
      ELSE <<seq[CHOOSE i \in hits : \A j \in hits : i <= j]>>

\* ANTHROPIC_ALIASES.get(modelName) ?? modelName
resolveAnthropicModelName(modelName) ==
  LET hit == Find(ANTHROPIC_ALIASES, "alias", modelName)
  IN  IF hit # <<>> THEN Str(hit[1].id) ELSE modelName

\* the model entry in <<entry>>, or the thrown error
findAnthropicModel(modelName) ==
  LET resolvedName == resolveAnthropicModelName(modelName)
      hit == Find(ANTHROPIC_MODELS, "id", resolvedName)
  IN  IF hit = <<>>
      THEN Throw("Unknown model", "", modelName, ANTHROPIC_MODEL_IDS)
      ELSE hit[1]

-----------------------------------------------------------------------------
(* Anthropic: cost calculator *)

TIERED_PRICING_THRESHOLD_TOKENS == 200000

\* the boundary taken one token early: >= where the code has >
selectInputBaseRate_AtThreshold(pricing, inputTokens) ==
  IF pricing.tiered /\ inputTokens >= TIERED_PRICING_THRESHOLD_TOKENS
  THEN pricing.inputBaseOver200k
  ELSE pricing.inputBase

selectInputBaseRate(pricing, inputTokens) ==
  IF pricing.tiered /\ inputTokens > TIERED_PRICING_THRESHOLD_TOKENS
  THEN pricing.inputBaseOver200k
  ELSE pricing.inputBase

selectOutputRate(pricing, inputTokens) ==
  IF pricing.tiered /\ inputTokens > TIERED_PRICING_THRESHOLD_TOKENS
  THEN pricing.outputOver200k
  ELSE pricing.output

selectCacheWriteRate(pricing, inputTokens) ==
  IF pricing.tiered /\ inputTokens > TIERED_PRICING_THRESHOLD_TOKENS
  THEN pricing.cacheWriteOver200k
  ELSE pricing.cacheWrite

selectCacheReadRate(pricing, inputTokens) ==
  IF pricing.tiered /\ inputTokens > TIERED_PRICING_THRESHOLD_TOKENS
  THEN pricing.cacheReadOver200k
  ELSE pricing.cacheRead

\* the remainder not held at 0
anthropicBaseInputTokens_Unclamped(u) ==
  u.input_tokens.v - OrDefault(u.cache_hits, 0) - OrDefault(u.cache_writes, 0)


\* the cache writes not carved out of the base input pool
anthropicBaseInputTokens_WritesKept(u) ==
  IF Truthy(u.cache_hits) \/ Truthy(u.cache_writes)
  THEN Max(0, u.input_tokens.v - OrDefault(u.cache_hits, 0))
  ELSE u.input_tokens.v

\* baseInputTokensInMillions, in tokens: what is priced at the input-base rate
anthropicBaseInputTokens(u) ==
  IF Truthy(u.cache_hits) \/ Truthy(u.cache_writes)
  THEN Max(0, u.input_tokens.v - OrDefault(u.cache_hits, 0)
                               - OrDefault(u.cache_writes, 0))
  ELSE u.input_tokens.v

\* cache accounting taken before the batch branch
calculateInputCost_CacheFirst(pricing, u) ==
  IF Truthy(u.batch_mode) /\ ~(Truthy(u.cache_hits) \/ Truthy(u.cache_writes))
  THEN u.input_tokens.v * pricing.batchInput
  ELSE LET cacheCost ==
             IF Truthy(u.cache_hits) \/ Truthy(u.cache_writes)
             THEN OrDefault(u.cache_hits, 0)
                    * selectCacheReadRate(pricing, u.input_tokens.v)
                  + OrDefault(u.cache_writes, 0)
                    * selectCacheWriteRate(pricing, u.input_tokens.v)
             ELSE 0
       IN  cacheCost
           + anthropicBaseInputTokens(u)
             * selectInputBaseRate(pricing, u.input_tokens.v)

calculateInputCost(pricing, u) ==
  IF Truthy(u.batch_mode)
  THEN u.input_tokens.v * pricing.batchInput
  ELSE LET cacheCost ==
             IF Truthy(u.cache_hits) \/ Truthy(u.cache_writes)
             THEN OrDefault(u.cache_hits, 0)
                    * selectCacheReadRate(pricing, u.input_tokens.v)
                  + OrDefault(u.cache_writes, 0)
                    * selectCacheWriteRate(pricing, u.input_tokens.v)
             ELSE 0
       IN  cacheCost
           + anthropicBaseInputTokens(u)
             * selectInputBaseRate(pricing, u.input_tokens.v)

calculateOutputCost(pricing, u) ==
  IF Truthy(u.batch_mode)
  THEN u.output_tokens.v * pricing.batchOutput
  ELSE u.output_tokens.v * selectOutputRate(pricing, u.input_tokens.v)

\* the queries charged at the rate of another provider
calculateWebSearchCost_OtherRate(webSearchQueries) ==
  webSearchQueries * UsdPer1k(30, 0)


calculateWebSearchCost(webSearchQueries) ==
  webSearchQueries * UsdPer1k(10, 0)

\* the web-search charge left out of the total
anthropicTotal_NoWebSearch(input, output, webSearchQueryCost) ==
  input + output

\* total: input + output + webSearchQueryCost
anthropicTotal(input, output, webSearchQueryCost) ==
  input + output + webSearchQueryCost

calculateAnthropicCost(u, modelName) ==
  IF u = Undefined THEN TypeError
  ELSE IF ~TypeofNumber(u.input_tokens)
  THEN Throw("Missing", "input_tokens", UndefinedModel, <<>>)
  ELSE IF ~TypeofNumber(u.output_tokens)
  THEN Throw("Missing", "output_tokens", UndefinedModel, <<>>)
  ELSE LET resolvedName == resolveAnthropicModelName(modelName)
           modelEntry == findAnthropicModel(resolvedName)
       IN  IF "kind" \in DOMAIN modelEntry THEN modelEntry
           ELSE LET input == calculateInputCost(modelEntry.pricing, u)
                    output == calculateOutputCost(modelEntry.pricing, u)
                    webSearchQueries == OrDefault(u.web_search_queries, 0)
                    webSearchQueryCost == calculateWebSearchCost(webSearchQueries)
                IN  Breakdown(input, output,
                              anthropicTotal(input, output, webSearchQueryCost),
                              webSearchQueries, webSearchQueryCost,
                              CostFields \cup WebSearchFields, {})

-----------------------------------------------------------------------------
(* OpenAI: registry *)

\* "gpt-5.2"
GPT_5_2 ==
  <<"g", "p", "t", "-", "5", ".", "2">>

\* "gpt-5-mini"
GPT_5_MINI ==
  <<"g", "p", "t", "-", "5", "-", "m", "i", "n", "i">>

\* "gpt-5-nano"
GPT_5_NANO ==
  <<"g", "p", "t", "-", "5", "-", "n", "a", "n", "o">>

OPENAI_MODEL_IDS == <<GPT_5_2, GPT_5_MINI, GPT_5_NANO>>

OPENAI_MODELS ==
  << [id |-> GPT_5_2, supportsVision |-> TRUE,
      pricing |-> [input |-> Usd(1, 7500), output |-> Usd(14, 0),
                   cached |-> Usd(0, 1750)]],
     [id |-> GPT_5_MINI, supportsVision |-> FALSE,
      pricing |-> [input |-> Usd(0, 2500), output |-> Usd(2, 0),
                   cached |-> Usd(0, 250)]],
     [id |-> GPT_5_NANO, supportsVision |-> FALSE,
      pricing |-> [input |-> Usd(0, 500), output |-> Usd(0, 4000),
                   cached |-> Usd(0, 50)]] >>

OPENAI_ALIASES ==
  << [alias |-> <<"g", "p", "t", "-", "5", ".", "2", "-", "c", "h", "a", "t", "-", "l", "a", "t", "e", "s", "t">>, id |-> GPT_5_2] >>

Digits == {"0", "1", "2", "3", "4", "5", "6", "7", "8", "9"}

\* does chars end in -YYYY-MM-DD: the pattern /-\d{4}-\d{2}-\d{2}$/
EndsWithDate(chars) ==
  LET n == Len(chars)
  IN  /\ n >= 11
      /\ chars[n - 10] = "-"
      /\ \A i \in (n - 9)..(n - 6) : chars[i] \in Digits
      /\ chars[n - 5] = "-"
      /\ \A i \in (n - 4)..(n - 3) : chars[i] \in Digits
      /\ chars[n - 2] = "-"
      /\ \A i \in (n - 1)..n : chars[i] \in Digits

\* modelName.replace(/-\d{4}-\d{2}-\d{2}$/, "")
WithoutDateSuffix(chars) ==
  IF EndsWithDate(chars) THEN SubSeq(chars, 1, Len(chars) - 11) ELSE chars

\* the stripped name returned when nothing matched
resolveOpenAIModelName_StrippedFallback(modelName) ==
  LET fromAlias == Find(OPENAI_ALIASES, "alias", modelName)
      withoutDateSuffix == Str(WithoutDateSuffix(modelName.s))
      fromAliasAfterNormalize ==
        Find(OPENAI_ALIASES, "alias", withoutDateSuffix)
      matchesKnownModel ==
        Find(OPENAI_MODELS, "id", withoutDateSuffix)
  IN  IF fromAlias # <<>> THEN Str(fromAlias[1].id)
      ELSE IF fromAliasAfterNormalize # <<>> THEN Str(fromAliasAfterNormalize[1].id)
      ELSE IF matchesKnownModel # <<>> THEN Str(matchesKnownModel[1].id)
      ELSE withoutDateSuffix


resolveOpenAIModelName(modelName) ==
  LET fromAlias == Find(OPENAI_ALIASES, "alias", modelName)
      withoutDateSuffix == Str(WithoutDateSuffix(modelName.s))
      fromAliasAfterNormalize ==
        Find(OPENAI_ALIASES, "alias", withoutDateSuffix)
      matchesKnownModel ==
        Find(OPENAI_MODELS, "id", withoutDateSuffix)
  IN  IF fromAlias # <<>> THEN Str(fromAlias[1].id)
      ELSE IF fromAliasAfterNormalize # <<>> THEN Str(fromAliasAfterNormalize[1].id)
      ELSE IF matchesKnownModel # <<>> THEN Str(matchesKnownModel[1].id)
      ELSE modelName

\* the model entry, or the thrown error
findOpenAIModel(modelName) ==
  LET resolvedName == resolveOpenAIModelName(modelName)
      hit == Find(OPENAI_MODELS, "id", resolvedName)
  IN  IF hit = <<>>
      THEN Throw("Unknown model", "", modelName, OPENAI_MODEL_IDS)
      ELSE hit[1]

-----------------------------------------------------------------------------
(* OpenAI: cost calculator *)

\* a result that remembers whether the registry was queried before
CheckedResult_AfterQuery(r) ==
  IF r.input < 0 THEN Throw("Invalid calculated", "input", UndefinedModel, <<>>)
  ELSE IF r.output < 0 THEN Throw("Invalid calculated", "output", UndefinedModel, <<>>)
  ELSE IF r.total < 0 THEN Throw("Invalid calculated", "total", UndefinedModel, <<>>)
  ELSE IF query = NoResult THEN r
  ELSE [r EXCEPT !.total = r.total + UnitsPerMicroDollar]


\* the checks of the rounded result: a negative field throws.  NaN cannot
\* arise from numeric token counts and numeric rates.
CheckedResult(r) ==
  IF r.input < 0 THEN Throw("Invalid calculated", "input", UndefinedModel, <<>>)
  ELSE IF r.output < 0 THEN Throw("Invalid calculated", "output", UndefinedModel, <<>>)
  ELSE IF r.total < 0 THEN Throw("Invalid calculated", "total", UndefinedModel, <<>>)
  ELSE r

\* nonCachedTokensInMillions, in tokens: what is priced at the input rate
openaiNonCachedTokens(u) ==
  IF OrDefault(u.cached_tokens, 0) > 0
  THEN u.prompt_tokens.v - OrDefault(u.cached_tokens, 0)
  ELSE u.prompt_tokens.v

\* the cached slice priced at the input rate
openaiInputCost_CachedAtInputRate(pricing, u) ==
  u.prompt_tokens.v * pricing.input


openaiInputCost(pricing, u) ==
  IF OrDefault(u.cached_tokens, 0) > 0
  THEN openaiNonCachedTokens(u) * pricing.input
       + OrDefault(u.cached_tokens, 0) * pricing.cached
  ELSE u.prompt_tokens.v * pricing.input

calculateOpenAICost(modelName, u) ==
  IF Falsy(modelName) THEN Throw("required", "model", UndefinedModel, <<>>)
  ELSE IF u = Undefined THEN Throw("required", "usage", UndefinedModel, <<>>)
  ELSE IF ~TypeofNumber(u.prompt_tokens) \/ u.prompt_tokens.v < 0
  THEN Throw("Invalid", "prompt_tokens", UndefinedModel, <<>>)
  ELSE IF ~TypeofNumber(u.completion_tokens) \/ u.completion_tokens.v < 0
  THEN Throw("Invalid", "completion_tokens", UndefinedModel, <<>>)
  ELSE LET resolvedModel == resolveOpenAIModelName(modelName)
           modelEntry == findOpenAIModel(resolvedModel)
       IN  IF "kind" \in DOMAIN modelEntry THEN modelEntry
           ELSE LET pricing == modelEntry.pricing
                    inputCost == openaiInputCost(pricing, u)
                    outputCost == u.completion_tokens.v * pricing.output
                    webSearchTokenCost ==
                      IF Truthy(u.web_search_tokens)
                      THEN u.web_search_tokens.v * pricing.input
                      ELSE 0
                    webSearchQueryCost ==
                      IF Truthy(u.web_search_queries)
                      THEN u.web_search_queries.v * UsdPer1k(30, 0)
                      ELSE 0
                    totalCost == inputCost + outputCost + webSearchTokenCost
                                 + webSearchQueryCost
                IN  CheckedResult(
                      Breakdown(Round6(inputCost + webSearchTokenCost),
                                Round6(outputCost),
                                Round6(totalCost),
                                OrDefault(u.web_search_queries, 0),
                                Round6(webSearchQueryCost),
                                CostFields \cup WebSearchFields, {}))

-----------------------------------------------------------------------------
(* Google: pricing table and cost calculator *)

\* the PRICING object, key by key; a rate a model does not offer is absent
GOOGLE_PRICING ==
  <<
     \* "gemini-3-pro-preview"
     [id |-> <<"g", "e", "m", "i", "n", "i", "-", "3", "-", "p", "r", "o", "-", "p", "r", "e", "v", "i", "e", "w">>,
      pricing |-> [input |-> Usd(2, 0), output |-> Usd(12, 0), cacheRead |-> Usd(0, 2000), batchInput |-> Usd(1, 0), batchOutput |-> Usd(6, 0)]],
     \* "gemini-2.5-pro"
     [id |-> <<"g", "e", "m", "i", "n", "i", "-", "2", ".", "5", "-", "p", "r", "o">>,
      pricing |-> [input |-> Usd(1, 2500), output |-> Usd(10, 0), cacheRead |-> Usd(0, 1250), batchInput |-> Usd(0, 6250), batchOutput |-> Usd(5, 0)]],
     \* "gemini-2.5-flash"
     [id |-> <<"g", "e", "m", "i", "n", "i", "-", "2", ".", "5", "-", "f", "l", "a", "s", "h">>,
      pricing |-> [input |-> Usd(0, 3000), output |-> Usd(2, 5000), cacheRead |-> Usd(0, 300), batchInput |-> Usd(0, 1500), batchOutput |-> Usd(1, 2500)]],
     \* "gemini-2.5-flash-preview-09-2025"
     [id |-> <<"g", "e", "m", "i", "n", "i", "-", "2", ".", "5", "-", "f", "l", "a", "s", "h", "-", "p", "r", "e", "v", "i", "e", "w", "-", "0", "9", "-", "2", "0", "2", "5">>,
      pricing |-> [input |-> Usd(0, 3000), output |-> Usd(2, 5000), cacheRead |-> Usd(0, 300), batchInput |-> Usd(0, 1500), batchOutput |-> Usd(1, 2500)]],
     \* "gemini-2.5-flash-lite"
     [id |-> <<"g", "e", "m", "i", "n", "i", "-", "2", ".", "5", "-", "f", "l", "a", "s", "h", "-", "l", "i", "t", "e">>,
      pricing |-> [input |-> Usd(0, 1000), output |-> Usd(0, 4000), cacheRead |-> Usd(0, 100), batchInput |-> Usd(0, 500), batchOutput |-> Usd(0, 2000)]],
     \* "gemini-2.5-flash-lite-preview-09-2025"
     [id |-> <<"g", "e", "m", "i", "n", "i", "-", "2", ".", "5", "-", "f", "l", "a", "s", "h", "-", "l", "i", "t", "e", "-", "p", "r", "e", "v", "i", "e", "w", "-", "0", "9", "-", "2", "0", "2", "5">>,
      pricing |-> [input |-> Usd(0, 1000), output |-> Usd(0, 4000), cacheRead |-> Usd(0, 100), batchInput |-> Usd(0, 500), batchOutput |-> Usd(0, 2000)]],
     \* "gemini-2.0-flash"
     [id |-> <<"g", "e", "m", "i", "n", "i", "-", "2", ".", "0", "-", "f", "l", "a", "s", "h">>,
      pricing |-> [input |-> Usd(0, 1000), output |-> Usd(0, 4000), cacheRead |-> Usd(0, 250), batchInput |-> Usd(0, 500), batchOutput |-> Usd(0, 2000)]],
     \* "gemini-2.0-flash-001"
     [id |-> <<"g", "e", "m", "i", "n", "i", "-", "2", ".", "0", "-", "f", "l", "a", "s", "h", "-", "0", "0", "1">>,
      pricing |-> [input |-> Usd(0, 1000), output |-> Usd(0, 4000), cacheRead |-> Usd(0, 250), batchInput |-> Usd(0, 500), batchOutput |-> Usd(0, 2000)]],
     \* "gemini-2.0-flash-exp"
     [id |-> <<"g", "e", "m", "i", "n", "i", "-", "2", ".", "0", "-", "f", "l", "a", "s", "h", "-", "e", "x", "p">>,
      pricing |-> [input |-> Usd(0, 1000), output |-> Usd(0, 4000), cacheRead |-> Usd(0, 250), batchInput |-> Usd(0, 500), batchOutput |-> Usd(0, 2000)]],
     \* "gemini-2.0-flash-lite"
     [id |-> <<"g", "e", "m", "i", "n", "i", "-", "2", ".", "0", "-", "f", "l", "a", "s", "h", "-", "l", "i", "t", "e">>,
      pricing |-> [input |-> Usd(0, 750), output |-> Usd(0, 3000), batchInput |-> Usd(0, 375), batchOutput |-> Usd(0, 1500)]],
     \* "gemini-2.0-flash-lite-001"
     [id |-> <<"g", "e", "m", "i", "n", "i", "-", "2", ".", "0", "-", "f", "l", "a", "s", "h", "-", "l", "i", "t", "e", "-", "0", "0", "1">>,
      pricing |-> [input |-> Usd(0, 750), output |-> Usd(0, 3000), batchInput |-> Usd(0, 375), batchOutput |-> Usd(0, 1500)]],
     \* "gemini-2.0-flash-lite-preview"
     [id |-> <<"g", "e", "m", "i", "n", "i", "-", "2", ".", "0", "-", "f", "l", "a", "s", "h", "-", "l", "i", "t", "e", "-", "p", "r", "e", "v", "i", "e", "w">>,
      pricing |-> [input |-> Usd(0, 750), output |-> Usd(0, 3000), batchInput |-> Usd(0, 375), batchOutput |-> Usd(0, 1500)]],
     \* "gemini-2.0-flash-lite-preview-02-05"
     [id |-> <<"g", "e", "m", "i", "n", "i", "-", "2", ".", "0", "-", "f", "l", "a", "s", "h", "-", "l", "i", "t", "e", "-", "p", "r", "e", "v", "i", "e", "w", "-", "0", "2", "-", "0", "5">>,
      pricing |-> [input |-> Usd(0, 750), output |-> Usd(0, 3000), batchInput |-> Usd(0, 375), batchOutput |-> Usd(0, 1500)]],
     \* "gemini-2.5-computer-use-preview-10-2025"
     [id |-> <<"g", "e", "m", "i", "n", "i", "-", "2", ".", "5", "-", "c", "o", "m", "p", "u", "t", "e", "r", "-", "u", "s", "e", "-", "p", "r", "e", "v", "i", "e", "w", "-", "1", "0", "-", "2", "0", "2", "5">>,
      pricing |-> [input |-> Usd(1, 2500), output |-> Usd(10, 0)]],
     \* "gemini-robotics-er-1.5-preview"
     [id |-> <<"g", "e", "m", "i", "n", "i", "-", "r", "o", "b", "o", "t", "i", "c", "s", "-", "e", "r", "-", "1", ".", "5", "-", "p", "r", "e", "v", "i", "e", "w">>,
      pricing |-> [input |-> Usd(0, 3000), output |-> Usd(2, 5000)]],
     \* "gemini-exp-1206"
     [id |-> <<"g", "e", "m", "i", "n", "i", "-", "e", "x", "p", "-", "1", "2", "0", "6">>,
      pricing |-> [input |-> Usd(1, 2500), output |-> Usd(10, 0), cacheRead |-> Usd(0, 1250), batchInput |-> Usd(0, 6250), batchOutput |-> Usd(5, 0)]],
     \* "gemini-flash-latest"
     [id |-> <<"g", "e", "m", "i", "n", "i", "-", "f", "l", "a", "s", "h", "-", "l", "a", "t", "e", "s", "t">>,
      pricing |-> [input |-> Usd(0, 3000), output |-> Usd(2, 5000), cacheRead |-> Usd(0, 300), batchInput |-> Usd(0, 1500), batchOutput |-> Usd(1, 2500)]],
     \* "gemini-flash-lite-latest"
     [id |-> <<"g", "e", "m", "i", "n", "i", "-", "f", "l", "a", "s", "h", "-", "l", "i", "t", "e", "-", "l", "a", "t", "e", "s", "t">>,
      pricing |-> [input |-> Usd(0, 1000), output |-> Usd(0, 4000), cacheRead |-> Usd(0, 100), batchInput |-> Usd(0, 500), batchOutput |-> Usd(0, 2000)]],
     \* "gemini-pro-latest"
     [id |-> <<"g", "e", "m", "i", "n", "i", "-", "p", "r", "o", "-", "l", "a", "t", "e", "s", "t">>,
      pricing |-> [input |-> Usd(1, 2500), output |-> Usd(10, 0), cacheRead |-> Usd(0, 1250), batchInput |-> Usd(0, 6250), batchOutput |-> Usd(5, 0)]] >>

GOOGLE_MODEL_ALIASES ==
  <<
     \* "gemini-2.5-pro-latest": "gemini-2.5-pro"
     [alias |-> <<"g", "e", "m", "i", "n", "i", "-", "2", ".", "5", "-", "p", "r", "o", "-", "l", "a", "t", "e", "s", "t">>,
      id |-> <<"g", "e", "m", "i", "n", "i", "-", "2", ".", "5", "-", "p", "r", "o">>],
     \* "gemini-2.5-flash-latest": "gemini-2.5-flash"
     [alias |-> <<"g", "e", "m", "i", "n", "i", "-", "2", ".", "5", "-", "f", "l", "a", "s", "h", "-", "l", "a", "t", "e", "s", "t">>,
      id |-> <<"g", "e", "m", "i", "n", "i", "-", "2", ".", "5", "-", "f", "l", "a", "s", "h">>],
     \* "gemini-2.0-flash-latest": "gemini-2.0-flash"
     [alias |-> <<"g", "e", "m", "i", "n", "i", "-", "2", ".", "0", "-", "f", "l", "a", "s", "h", "-", "l", "a", "t", "e", "s", "t">>,
      id |-> <<"g", "e", "m", "i", "n", "i", "-", "2", ".", "0", "-", "f", "l", "a", "s", "h">>] >>

\* MODEL_ALIASES[modelName] || modelName
resolveModelName(modelName) ==
  LET hit == Find(GOOGLE_MODEL_ALIASES, "alias", modelName)
  IN  IF hit # <<>> THEN Str(hit[1].id) ELSE modelName

\* the pricing record, or the thrown error (its message lists no model IDs)
getModelPricing(modelName) ==
  LET resolvedName == resolveModelName(modelName)
      hit == Find(GOOGLE_PRICING, "id", resolvedName)
  IN  IF hit = <<>>
      THEN Throw("Unknown model", "", modelName, <<>>)
      ELSE hit[1].pricing

\* pricing.<rate> !== undefined
Offers(pricing, rate) == rate \in DOMAIN pricing

\* nonCachedTokensInMillions, in tokens: what is priced at the input rate
googleNonCachedTokens(pricing, u) ==
  IF OrDefault(u.cached_tokens, 0) > 0 /\ Offers(pricing, "cacheRead")
  THEN u.prompt_tokens.v - OrDefault(u.cached_tokens, 0)
  ELSE u.prompt_tokens.v

\* the cache branch tested before the batch branch
googleInputCost_CacheFirst(pricing, u) ==
  IF OrDefault(u.cached_tokens, 0) > 0 /\ Offers(pricing, "cacheRead")
  THEN googleNonCachedTokens(pricing, u) * pricing.input
       + OrDefault(u.cached_tokens, 0) * pricing.cacheRead
  ELSE IF Truthy(u.batch_mode) /\ Offers(pricing, "batchInput")
  THEN u.prompt_tokens.v * pricing.batchInput
  ELSE u.prompt_tokens.v * pricing.input

googleInputCost(pricing, u) ==
  IF Truthy(u.batch_mode) /\ Offers(pricing, "batchInput")
  THEN u.prompt_tokens.v * pricing.batchInput
  ELSE IF OrDefault(u.cached_tokens, 0) > 0 /\ Offers(pricing, "cacheRead")
  THEN googleNonCachedTokens(pricing, u) * pricing.input
       + OrDefault(u.cached_tokens, 0) * pricing.cacheRead
  ELSE u.prompt_tokens.v * pricing.input

googleOutputCost(pricing, u) ==
  IF Truthy(u.batch_mode) /\ Offers(pricing, "batchOutput")
  THEN u.completion_tokens.v * pricing.batchOutput
  ELSE u.completion_tokens.v * pricing.output

calculateGoogleCost(modelName, u) ==
  IF Falsy(modelName) THEN Throw("required", "model", UndefinedModel, <<>>)
  ELSE IF u = Undefined THEN Throw("required", "usage", UndefinedModel, <<>>)
  ELSE IF ~TypeofNumber(u.prompt_tokens) \/ u.prompt_tokens.v < 0
  THEN Throw("Invalid", "prompt_tokens", UndefinedModel, <<>>)
  ELSE IF ~TypeofNumber(u.completion_tokens) \/ u.completion_tokens.v < 0
  THEN Throw("Invalid", "completion_tokens", UndefinedModel, <<>>)
  ELSE LET pricing == getModelPricing(modelName)
       IN  IF "kind" \in DOMAIN pricing THEN pricing
           ELSE LET inputCost == googleInputCost(pricing, u)
                    outputCost == googleOutputCost(pricing, u)
                    totalCost == inputCost + outputCost
                IN  CheckedResult(
                      Breakdown(Round6(inputCost), Round6(outputCost),
                                Round6(totalCost), 0, 0, CostFields, {}))

-----------------------------------------------------------------------------
(* Perplexity: cost calculator *)

\* "sonar"
SONAR ==
  <<"s", "o", "n", "a", "r">>

\* "sonar-pro"
SONAR_PRO ==
  <<"s", "o", "n", "a", "r", "-", "p", "r", "o">>

\* "sonar-reasoning"
SONAR_REASONING ==
  <<"s", "o", "n", "a", "r", "-", "r", "e", "a", "s", "o", "n", "i", "n", "g">>

\* "sonar-reasoning-pro"
SONAR_REASONING_PRO ==
  <<"s", "o", "n", "a", "r", "-", "r", "e", "a", "s", "o", "n", "i", "n", "g", "-", "p", "r", "o">>

\* "sonar-deep-research"
SONAR_DEEP_RESEARCH ==
  <<"s", "o", "n", "a", "r", "-", "d", "e", "e", "p", "-", "r", "e", "s", "e", "a", "r", "c", "h">>

\* dollars per 1000 tokens, the same for the three context sizes of a model;
\* perRequest is in the table and is not charged
PERPLEXITY_PRICING ==
  << [id |-> SONAR,
      input |-> [low |-> UsdPer1k(0, 10), medium |-> UsdPer1k(0, 10), high |-> UsdPer1k(0, 10)],
      output |-> [low |-> UsdPer1k(0, 10), medium |-> UsdPer1k(0, 10), high |-> UsdPer1k(0, 10)]],
     [id |-> SONAR_PRO,
      input |-> [low |-> UsdPer1k(0, 30), medium |-> UsdPer1k(0, 30), high |-> UsdPer1k(0, 30)],
      output |-> [low |-> UsdPer1k(0, 150), medium |-> UsdPer1k(0, 150), high |-> UsdPer1k(0, 150)]],
     [id |-> SONAR_REASONING,
      input |-> [low |-> UsdPer1k(0, 10), medium |-> UsdPer1k(0, 10), high |-> UsdPer1k(0, 10)],
      output |-> [low |-> UsdPer1k(0, 50), medium |-> UsdPer1k(0, 50), high |-> UsdPer1k(0, 50)]],
     [id |-> SONAR_REASONING_PRO,
      input |-> [low |-> UsdPer1k(0, 20), medium |-> UsdPer1k(0, 20), high |-> UsdPer1k(0, 20)],
      output |-> [low |-> UsdPer1k(0, 80), medium |-> UsdPer1k(0, 80), high |-> UsdPer1k(0, 80)]],
     [id |-> SONAR_DEEP_RESEARCH,
      input |-> [low |-> UsdPer1k(0, 20), medium |-> UsdPer1k(0, 20), high |-> UsdPer1k(0, 20)],
      output |-> [low |-> UsdPer1k(0, 80), medium |-> UsdPer1k(0, 80), high |-> UsdPer1k(0, 80)],
      reasoning |-> UsdPer1k(0, 30)] >>

UpperCase ==
  <<"A", "B", "C", "D", "E", "F", "G", "H", "I", "J", "K", "L", "M",
    "N", "O", "P", "Q", "R", "S", "T", "U", "V", "W", "X", "Y", "Z">>

LowerCase ==
  <<"a", "b", "c", "d", "e", "f", "g", "h", "i", "j", "k", "l", "m",
    "n", "o", "p", "q", "r", "s", "t", "u", "v", "w", "x", "y", "z">>

\* String.prototype.toLowerCase, on the characters
ToLowerCase(chars) ==
  [i \in DOMAIN chars |->
     IF \E k \in DOMAIN UpperCase : UpperCase[k] = chars[i]
     THEN LowerCase[CHOOSE k \in DOMAIN UpperCase : UpperCase[k] = chars[i]]
     ELSE chars[i]]

\* String.prototype.startsWith
StartsWith(chars, prefix) ==
  Len(chars) >= Len(prefix) /\ SubSeq(chars, 1, Len(prefix)) = prefix

\* the reasoning family tested before its pro variant
normalizeModel_ShortestFirst(chars) ==
  LET m == ToLowerCase(chars)
  IN  IF StartsWith(m, SONAR_DEEP_RESEARCH) THEN <<SONAR_DEEP_RESEARCH>>
      ELSE IF StartsWith(m, SONAR_REASONING) THEN <<SONAR_REASONING>>
      ELSE IF StartsWith(m, SONAR_REASONING_PRO) THEN <<SONAR_REASONING_PRO>>
      ELSE IF StartsWith(m, SONAR_PRO) THEN <<SONAR_PRO>>
      ELSE IF StartsWith(m, SONAR) THEN <<SONAR>>
      ELSE <<>>


\* the key in <<key>>, <<>> for undefined
normalizeModel(chars) ==
  LET m == ToLowerCase(chars)
  IN  IF StartsWith(m, SONAR_DEEP_RESEARCH) THEN <<SONAR_DEEP_RESEARCH>>
      ELSE IF StartsWith(m, SONAR_REASONING_PRO) THEN <<SONAR_REASONING_PRO>>
      ELSE IF StartsWith(m, SONAR_REASONING) THEN <<SONAR_REASONING>>
      ELSE IF StartsWith(m, SONAR_PRO) THEN <<SONAR_PRO>>
      ELSE IF StartsWith(m, SONAR) THEN <<SONAR>>
      ELSE <<>>

\* (tokens / 1000) * rate: NaN, given as <<>>, for a token count that is no number
perplexityTokenCost(tokens, rate) ==
  IF TypeofNumber(tokens) THEN <<tokens.v * rate>> ELSE <<>>

calculatePerplexityCost(modelName, u) ==
  IF modelName.t = "undefined" THEN TypeError
  ELSE LET modelKey == normalizeModel(modelName.s)
       IN  IF modelKey = <<>> THEN Throw("Unknown model", "", modelName, <<>>)
           ELSE IF u = Undefined THEN TypeError
           ELSE LET pricing == Find(PERPLEXITY_PRICING, "id", Str(modelKey[1]))[1]
                    searchContextSize ==
                      IF u.search_context_size = "" THEN "low"
                      ELSE u.search_context_size
                    input == perplexityTokenCost(u.prompt_tokens,
                                                 pricing.input[searchContextSize])
                    output == perplexityTokenCost(u.completion_tokens,
                                                  pricing.output[searchContextSize])
                    \* computed with the reasoning surcharge and not returned
                    totalCost ==
                      IF input = <<>> \/ output = <<>> THEN <<>>
                      ELSE IF modelKey[1] = SONAR_DEEP_RESEARCH
                              /\ Truthy(u.reasoning_tokens)
                      THEN <<input[1] + output[1]
                             + u.reasoning_tokens.v * pricing.reasoning>>
                      ELSE <<input[1] + output[1]>>
                    nan == {f \in CostFields :
                              \/ f \in {"input", "total"} /\ input = <<>>
                              \/ f \in {"output", "total"} /\ output = <<>>}
                    num(x) == IF x = <<>> THEN 0 ELSE x[1]
                IN  Breakdown(num(input), num(output),
                              IF nan = {} THEN input[1] + output[1] ELSE 0,
                              0, 0, CostFields, nan)

-----------------------------------------------------------------------------
(* OpenAI: the calculator over the OpenAIModel pricing matrix *)

\* the values of the OpenAIModel enum, in declaration order
OpenAIModel ==
  <<
     \* "gpt-5.1"
     <<"g", "p", "t", "-", "5", ".", "1">>,
     \* "gpt-5.1-chat-latest"
     <<"g", "p", "t", "-", "5", ".", "1", "-", "c", "h", "a", "t", "-", "l", "a", "t", "e", "s", "t">>,
     \* "gpt-5"
     <<"g", "p", "t", "-", "5">>,
     \* "gpt-5-mini"
     <<"g", "p", "t", "-", "5", "-", "m", "i", "n", "i">>,
     \* "gpt-5-nano"
     <<"g", "p", "t", "-", "5", "-", "n", "a", "n", "o">>,
     \* "gpt-5-chat-latest"
     <<"g", "p", "t", "-", "5", "-", "c", "h", "a", "t", "-", "l", "a", "t", "e", "s", "t">>,
     \* "gpt-4.5-preview"
     <<"g", "p", "t", "-", "4", ".", "5", "-", "p", "r", "e", "v", "i", "e", "w">>,
     \* "gpt-4.1"
     <<"g", "p", "t", "-", "4", ".", "1">>,
     \* "gpt-4.1-mini"
     <<"g", "p", "t", "-", "4", ".", "1", "-", "m", "i", "n", "i">>,
     \* "gpt-4.1-nano"
     <<"g", "p", "t", "-", "4", ".", "1", "-", "n", "a", "n", "o">>,
     \* "gpt-4o"
     <<"g", "p", "t", "-", "4", "o">>,
     \* "gpt-4o-mini"
     <<"g", "p", "t", "-", "4", "o", "-", "m", "i", "n", "i">>,
     \* "gpt-4o-audio-preview"
     <<"g", "p", "t", "-", "4", "o", "-", "a", "u", "d", "i", "o", "-", "p", "r", "e", "v", "i", "e", "w">>,
     \* "gpt-4o-realtime-preview"
     <<"g", "p", "t", "-", "4", "o", "-", "r", "e", "a", "l", "t", "i", "m", "e", "-", "p", "r", "e", "v", "i", "e", "w">>,
     \* "gpt-4o-mini-audio-preview"
     <<"g", "p", "t", "-", "4", "o", "-", "m", "i", "n", "i", "-", "a", "u", "d", "i", "o", "-", "p", "r", "e", "v", "i", "e", "w">>,
     \* "gpt-4o-mini-realtime-preview"
     <<"g", "p", "t", "-", "4", "o", "-", "m", "i", "n", "i", "-", "r", "e", "a", "l", "t", "i", "m", "e", "-", "p", "r", "e", "v", "i", "e", "w">>,
     \* "o1"
     <<"o", "1">>,
     \* "o1-mini"
     <<"o", "1", "-", "m", "i", "n", "i">>,
     \* "o1-pro"
     <<"o", "1", "-", "p", "r", "o">>,
     \* "o3"
     <<"o", "3">>,
     \* "o3-mini"
     <<"o", "3", "-", "m", "i", "n", "i">>,
     \* "o3-pro"
     <<"o", "3", "-", "p", "r", "o">>,
     \* "o4-mini"
     <<"o", "4", "-", "m", "i", "n", "i">>,
     \* "o3-deep-research"
     <<"o", "3", "-", "d", "e", "e", "p", "-", "r", "e", "s", "e", "a", "r", "c", "h">>,
     \* "o4-mini-deep-research"
     <<"o", "4", "-", "m", "i", "n", "i", "-", "d", "e", "e", "p", "-", "r", "e", "s", "e", "a", "r", "c", "h">>,
     \* "computer-use-preview"
     <<"c", "o", "m", "p", "u", "t", "e", "r", "-", "u", "s", "e", "-", "p", "r", "e", "v", "i", "e", "w">>,
     \* "gpt-image-1"
     <<"g", "p", "t", "-", "i", "m", "a", "g", "e", "-", "1">>,
     \* "codex-mini-latest"
     <<"c", "o", "d", "e", "x", "-", "m", "i", "n", "i", "-", "l", "a", "t", "e", "s", "t">>,
     \* "gpt-4o-mini-search-preview"
     <<"g", "p", "t", "-", "4", "o", "-", "m", "i", "n", "i", "-", "s", "e", "a", "r", "c", "h", "-", "p", "r", "e", "v", "i", "e", "w">>,
     \* "gpt-4o-search-preview"
     <<"g", "p", "t", "-", "4", "o", "-", "s", "e", "a", "r", "c", "h", "-", "p", "r", "e", "v", "i", "e", "w">>,
     \* "gpt-3.5-turbo"
     <<"g", "p", "t", "-", "3", ".", "5", "-", "t", "u", "r", "b", "o">> >>

\* OpenAIModel.GPT_4O_MINI_SEARCH_PREVIEW = "gpt-4o-mini-search-preview"
GPT_4O_MINI_SEARCH_PREVIEW ==
  <<"g", "p", "t", "-", "4", "o", "-", "m", "i", "n", "i", "-", "s", "e", "a", "r", "c", "h", "-", "p", "r", "e", "v", "i", "e", "w">>

\* OpenAIModel.GPT_4O_SEARCH_PREVIEW = "gpt-4o-search-preview"
GPT_4O_SEARCH_PREVIEW ==
  <<"g", "p", "t", "-", "4", "o", "-", "s", "e", "a", "r", "c", "h", "-", "p", "r", "e", "v", "i", "e", "w">>

\* the PRICING object, key by key; a model without a cached rate has no
\* cached field
OPENAI_MODEL_PRICING ==
  <<
     \* "gpt-5.1"
     [id |-> <<"g", "p", "t", "-", "5", ".", "1">>,
      pricing |-> [input |-> Usd(1, 2500), cached |-> Usd(0, 1250), output |-> Usd(10, 0)]],
     \* "gpt-5.1-chat-latest"
     [id |-> <<"g", "p", "t", "-", "5", ".", "1", "-", "c", "h", "a", "t", "-", "l", "a", "t", "e", "s", "t">>,
      pricing |-> [input |-> Usd(1, 2500), cached |-> Usd(0, 1250), output |-> Usd(10, 0)]],
     \* "gpt-5"
     [id |-> <<"g", "p", "t", "-", "5">>,
      pricing |-> [input |-> Usd(1, 2500), cached |-> Usd(0, 1250), output |-> Usd(10, 0)]],
     \* "gpt-5-mini"
     [id |-> <<"g", "p", "t", "-", "5", "-", "m", "i", "n", "i">>,
      pricing |-> [input |-> Usd(0, 2500), cached |-> Usd(0, 250), output |-> Usd(2, 0)]],
     \* "gpt-5-nano"
     [id |-> <<"g", "p", "t", "-", "5", "-", "n", "a", "n", "o">>,
      pricing |-> [input |-> Usd(0, 500), cached |-> Usd(0, 50), output |-> Usd(0, 4000)]],
     \* "gpt-5-chat-latest"
     [id |-> <<"g", "p", "t", "-", "5", "-", "c", "h", "a", "t", "-", "l", "a", "t", "e", "s", "t">>,
      pricing |-> [input |-> Usd(1, 2500), cached |-> Usd(0, 1250), output |-> Usd(10, 0)]],
     \* "gpt-4.5-preview"
     [id |-> <<"g", "p", "t", "-", "4", ".", "5", "-", "p", "r", "e", "v", "i", "e", "w">>,
      pricing |-> [input |-> Usd(75, 0), output |-> Usd(150, 0)]],
     \* "gpt-4.1"
     [id |-> <<"g", "p", "t", "-", "4", ".", "1">>,
      pricing |-> [input |-> Usd(2, 0), cached |-> Usd(0, 5000), output |-> Usd(8, 0)]],
     \* "gpt-4.1-mini"
     [id |-> <<"g", "p", "t", "-", "4", ".", "1", "-", "m", "i", "n", "i">>,
      pricing |-> [input |-> Usd(0, 4000), cached |-> Usd(0, 1000), output |-> Usd(1, 6000)]],
     \* "gpt-4.1-nano"
     [id |-> <<"g", "p", "t", "-", "4", ".", "1", "-", "n", "a", "n", "o">>,
      pricing |-> [input |-> Usd(0, 1000), cached |-> Usd(0, 250), output |-> Usd(0, 4000)]],
     \* "gpt-4o"
     [id |-> <<"g", "p", "t", "-", "4", "o">>,
      pricing |-> [input |-> Usd(2, 5000), cached |-> Usd(1, 2500), output |-> Usd(10, 0)]],
     \* "gpt-4o-mini"
     [id |-> <<"g", "p", "t", "-", "4", "o", "-", "m", "i", "n", "i">>,
      pricing |-> [input |-> Usd(0, 1500), cached |-> Usd(0, 750), output |-> Usd(0, 6000)]],
     \* "gpt-4o-audio-preview"
     [id |-> <<"g", "p", "t", "-", "4", "o", "-", "a", "u", "d", "i", "o", "-", "p", "r", "e", "v", "i", "e", "w">>,
      pricing |-> [input |-> Usd(2, 5000), output |-> Usd(10, 0)]],
     \* "gpt-4o-realtime-preview"
     [id |-> <<"g", "p", "t", "-", "4", "o", "-", "r", "e", "a", "l", "t", "i", "m", "e", "-", "p", "r", "e", "v", "i", "e", "w">>,
      pricing |-> [input |-> Usd(5, 0), cached |-> Usd(2, 5000), output |-> Usd(20, 0)]],
     \* "gpt-4o-mini-audio-preview"
     [id |-> <<"g", "p", "t", "-", "4", "o", "-", "m", "i", "n", "i", "-", "a", "u", "d", "i", "o", "-", "p", "r", "e", "v", "i", "e", "w">>,
      pricing |-> [input |-> Usd(0, 1500), output |-> Usd(0, 6000)]],
     \* "gpt-4o-mini-realtime-preview"
     [id |-> <<"g", "p", "t", "-", "4", "o", "-", "m", "i", "n", "i", "-", "r", "e", "a", "l", "t", "i", "m", "e", "-", "p", "r", "e", "v", "i", "e", "w">>,
      pricing |-> [input |-> Usd(0, 6000), cached |-> Usd(0, 3000), output |-> Usd(2, 4000)]],
     \* "gpt-4o-mini-search-preview"
     [id |-> <<"g", "p", "t", "-", "4", "o", "-", "m", "i", "n", "i", "-", "s", "e", "a", "r", "c", "h", "-", "p", "r", "e", "v", "i", "e", "w">>,
      pricing |-> [input |-> Usd(0, 1500), output |-> Usd(0, 6000)]],
     \* "gpt-4o-search-preview"
     [id |-> <<"g", "p", "t", "-", "4", "o", "-", "s", "e", "a", "r", "c", "h", "-", "p", "r", "e", "v", "i", "e", "w">>,
      pricing |-> [input |-> Usd(2, 5000), output |-> Usd(10, 0)]],
     \* "o1"
     [id |-> <<"o", "1">>,
      pricing |-> [input |-> Usd(15, 0), cached |-> Usd(7, 5000), output |-> Usd(60, 0)]],
     \* "o1-mini"
     [id |-> <<"o", "1", "-", "m", "i", "n", "i">>,
      pricing |-> [input |-> Usd(1, 1000), cached |-> Usd(0, 5500), output |-> Usd(4, 4000)]],
     \* "o1-pro"
     [id |-> <<"o", "1", "-", "p", "r", "o">>,
      pricing |-> [input |-> Usd(150, 0), output |-> Usd(600, 0)]],
     \* "o3"
     [id |-> <<"o", "3">>,
      pricing |-> [input |-> Usd(2, 0), cached |-> Usd(0, 5000), output |-> Usd(8, 0)]],
     \* "o3-mini"
     [id |-> <<"o", "3", "-", "m", "i", "n", "i">>,
      pricing |-> [input |-> Usd(1, 1000), cached |-> Usd(0, 5500), output |-> Usd(4, 4000)]],
     \* "o3-pro"
     [id |-> <<"o", "3", "-", "p", "r", "o">>,
      pricing |-> [input |-> Usd(20, 0), output |-> Usd(80, 0)]],
     \* "o4-mini"
     [id |-> <<"o", "4", "-", "m", "i", "n", "i">>,
      pricing |-> [input |-> Usd(1, 1000), cached |-> Usd(0, 2750), output |-> Usd(4, 4000)]],
     \* "o3-deep-research"
     [id |-> <<"o", "3", "-", "d", "e", "e", "p", "-", "r", "e", "s", "e", "a", "r", "c", "h">>,
      pricing |-> [input |-> Usd(10, 0), cached |-> Usd(2, 5000), output |-> Usd(40, 0)]],
     \* "o4-mini-deep-research"
     [id |-> <<"o", "4", "-", "m", "i", "n", "i", "-", "d", "e", "e", "p", "-", "r", "e", "s", "e", "a", "r", "c", "h">>,
      pricing |-> [input |-> Usd(2, 0), cached |-> Usd(0, 5000), output |-> Usd(8, 0)]],
     \* "computer-use-preview"
     [id |-> <<"c", "o", "m", "p", "u", "t", "e", "r", "-", "u", "s", "e", "-", "p", "r", "e", "v", "i", "e", "w">>,
      pricing |-> [input |-> Usd(3, 0), output |-> Usd(12, 0)]],
     \* "gpt-image-1"
     [id |-> <<"g", "p", "t", "-", "i", "m", "a", "g", "e", "-", "1">>,
      pricing |-> [input |-> Usd(5, 0), cached |-> Usd(1, 2500), output |-> Usd(0, 0)]],
     \* "codex-mini-latest"
     [id |-> <<"c", "o", "d", "e", "x", "-", "m", "i", "n", "i", "-", "l", "a", "t", "e", "s", "t">>,
      pricing |-> [input |-> Usd(1, 5000), cached |-> Usd(0, 3750), output |-> Usd(6, 0)]],
     \* "gpt-3.5-turbo"
     [id |-> <<"g", "p", "t", "-", "3", ".", "5", "-", "t", "u", "r", "b", "o">>,
      pricing |-> [input |-> Usd(0, 5000), output |-> Usd(1, 5000)]] >>

\* the tests of normalizeModel on the lower-cased name, in order:
\* startsWith(text) or === text, and the enum value returned
OPENAI_NORMALIZE_RULES ==
  <<
     [startsWith |-> TRUE,
      text |-> <<"o", "4", "-", "m", "i", "n", "i", "-", "d", "e", "e", "p", "-", "r", "e", "s", "e", "a", "r", "c", "h">>,
      id |-> <<"o", "4", "-", "m", "i", "n", "i", "-", "d", "e", "e", "p", "-", "r", "e", "s", "e", "a", "r", "c", "h">>],
     [startsWith |-> TRUE,
      text |-> <<"o", "3", "-", "d", "e", "e", "p", "-", "r", "e", "s", "e", "a", "r", "c", "h">>,
      id |-> <<"o", "3", "-", "d", "e", "e", "p", "-", "r", "e", "s", "e", "a", "r", "c", "h">>],
     [startsWith |-> TRUE,
      text |-> <<"g", "p", "t", "-", "4", ".", "5">>,
      id |-> <<"g", "p", "t", "-", "4", ".", "5", "-", "p", "r", "e", "v", "i", "e", "w">>],
     [startsWith |-> FALSE,
      text |-> <<"g", "p", "t", "-", "5", ".", "1", "-", "c", "h", "a", "t", "-", "l", "a", "t", "e", "s", "t">>,
      id |-> <<"g", "p", "t", "-", "5", ".", "1", "-", "c", "h", "a", "t", "-", "l", "a", "t", "e", "s", "t">>],
     [startsWith |-> FALSE,
      text |-> <<"g", "p", "t", "-", "5", ".", "1">>,
      id |-> <<"g", "p", "t", "-", "5", ".", "1">>],
     [startsWith |-> FALSE,
      text |-> <<"g", "p", "t", "-", "5", "-", "c", "h", "a", "t", "-", "l", "a", "t", "e", "s", "t">>,
      id |-> <<"g", "p", "t", "-", "5", "-", "c", "h", "a", "t", "-", "l", "a", "t", "e", "s", "t">>],
     [startsWith |-> FALSE,
      text |-> <<"g", "p", "t", "-", "5", "-", "m", "i", "n", "i">>,
      id |-> <<"g", "p", "t", "-", "5", "-", "m", "i", "n", "i">>],
     [startsWith |-> FALSE,
      text |-> <<"g", "p", "t", "-", "5", "-", "n", "a", "n", "o">>,
      id |-> <<"g", "p", "t", "-", "5", "-", "n", "a", "n", "o">>],
     [startsWith |-> FALSE,
      text |-> <<"g", "p", "t", "-", "5">>,
      id |-> <<"g", "p", "t", "-", "5">>],
     [startsWith |-> FALSE,
      text |-> <<"g", "p", "t", "-", "4", "o", "-", "m", "i", "n", "i">>,
      id |-> <<"g", "p", "t", "-", "4", "o", "-", "m", "i", "n", "i">>],
     [startsWith |-> FALSE,
      text |-> <<"g", "p", "t", "-", "4", "o">>,
      id |-> <<"g", "p", "t", "-", "4", "o">>],
     [startsWith |-> FALSE,
      text |-> <<"o", "1", "-", "m", "i", "n", "i">>,
      id |-> <<"o", "1", "-", "m", "i", "n", "i">>],
     [startsWith |-> FALSE,
      text |-> <<"o", "1", "-", "p", "r", "o">>,
      id |-> <<"o", "1", "-", "p", "r", "o">>],
     [startsWith |-> FALSE,
      text |-> <<"o", "1">>,
      id |-> <<"o", "1">>],
     [startsWith |-> FALSE,
      text |-> <<"o", "3", "-", "p", "r", "o">>,
      id |-> <<"o", "3", "-", "p", "r", "o">>],
     [startsWith |-> FALSE,
      text |-> <<"o", "3">>,
      id |-> <<"o", "3">>],
     [startsWith |-> FALSE,
      text |-> <<"o", "4", "-", "m", "i", "n", "i">>,
      id |-> <<"o", "4", "-", "m", "i", "n", "i">>],
     [startsWith |-> TRUE,
      text |-> <<"g", "p", "t", "-", "3", ".", "5", "-", "t", "u", "r", "b", "o">>,
      id |-> <<"g", "p", "t", "-", "3", ".", "5", "-", "t", "u", "r", "b", "o">>] >>

\* normalizeModel of the pricing-matrix calculator: an enum value is kept,
\* otherwise the first matching test on the lower-cased name gives the enum
\* value, otherwise the name is returned as it is
normalizeOpenAIModel(chars) ==
  IF \E i \in DOMAIN OpenAIModel : OpenAIModel[i] = chars THEN chars
  ELSE LET modelLower == ToLowerCase(chars)
           hits == {i \in DOMAIN OPENAI_NORMALIZE_RULES :
                      IF OPENAI_NORMALIZE_RULES[i].startsWith
                      THEN StartsWith(modelLower, OPENAI_NORMALIZE_RULES[i].text)
                      ELSE modelLower = OPENAI_NORMALIZE_RULES[i].text}
       IN  IF hits = {} THEN chars
           ELSE OPENAI_NORMALIZE_RULES[CHOOSE i \in hits : \A j \in hits : i <= j].id

\* the override left out: every model at the default rate
queryPricePerThousand_Default(normalizedModel) ==
  UsdPer1k(30, 0)


\* queryPricePerThousand: 30.0, 25.0 for gpt-4o-mini-search-preview
queryPricePerThousand(normalizedModel) ==
  IF normalizedModel = GPT_4O_MINI_SEARCH_PREVIEW THEN UsdPer1k(25, 0)
  ELSE IF normalizedModel = GPT_4O_SEARCH_PREVIEW THEN UsdPer1k(30, 0)
  ELSE UsdPer1k(30, 0)

\* inputCost: the cached split needs cached tokens and a cached rate
pricingInputCost(pricing, u) ==
  IF OrDefault(u.cached_tokens, 0) > 0 /\ "cached" \in DOMAIN pricing
  THEN (u.prompt_tokens.v - OrDefault(u.cached_tokens, 0)) * pricing.input
       + OrDefault(u.cached_tokens, 0) * pricing.cached
  ELSE u.prompt_tokens.v * pricing.input

\* calculateOpenAICost of src/lib/openai/cost-calculator.ts
calculateOpenAICostFromPricing(modelName, u) ==
  IF Falsy(modelName) THEN Throw("required", "model", UndefinedModel, <<>>)
  ELSE IF u = Undefined THEN Throw("required", "usage", UndefinedModel, <<>>)
  ELSE IF ~TypeofNumber(u.prompt_tokens) \/ u.prompt_tokens.v < 0
  THEN Throw("Invalid", "prompt_tokens", UndefinedModel, <<>>)
  ELSE IF ~TypeofNumber(u.completion_tokens) \/ u.completion_tokens.v < 0
  THEN Throw("Invalid", "completion_tokens", UndefinedModel, <<>>)
  ELSE LET normalizedModel == normalizeOpenAIModel(modelName.s)
           hit == Find(OPENAI_MODEL_PRICING, "id", Str(normalizedModel))
       IN  IF hit = <<>>
           THEN Throw("Unknown model", "", modelName,
                      [i \in DOMAIN OPENAI_MODEL_PRICING |->
                         OPENAI_MODEL_PRICING[i].id])
           ELSE LET pricing == hit[1].pricing
                    inputCost == pricingInputCost(pricing, u)
                    outputCost == u.completion_tokens.v * pricing.output
                    webSearchTokenCost ==
                      IF Truthy(u.web_search_tokens)
                      THEN u.web_search_tokens.v * pricing.input
                      ELSE 0
                    webSearchQueryCost ==
                      IF Truthy(u.web_search_queries)
                      THEN u.web_search_queries.v
                           * queryPricePerThousand(normalizedModel)
                      ELSE 0
                    totalCost == inputCost + outputCost + webSearchTokenCost
                                 + webSearchQueryCost
                IN  CheckedResult(
                      Breakdown(Round6(inputCost + webSearchTokenCost),
                                Round6(outputCost),
                                Round6(totalCost),
                                OrDefault(u.web_search_queries, 0),
                                Round6(webSearchQueryCost),
                                CostFields \cup WebSearchFields, {}))

-----------------------------------------------------------------------------
(* Registry: the Google catalog and the advisory queries *)

\* "gemini-3.1-pro-preview"
GEMINI_3_1_PRO_PREVIEW ==
  <<"g", "e", "m", "i", "n", "i", "-", "3", ".", "1", "-", "p", "r", "o", "-", "p", "r", "e", "v", "i", "e", "w">>

\* "gemini-3-flash-preview"
GEMINI_3_FLASH_PREVIEW ==
  <<"g", "e", "m", "i", "n", "i", "-", "3", "-", "f", "l", "a", "s", "h", "-", "p", "r", "e", "v", "i", "e", "w">>

GOOGLE_MODEL_IDS == <<GEMINI_3_1_PRO_PREVIEW, GEMINI_3_FLASH_PREVIEW>>

GOOGLE_MODELS ==
  << [id |-> GEMINI_3_1_PRO_PREVIEW, supportsVision |-> TRUE,
      pricing |-> [input |-> Usd(2, 0), output |-> Usd(12, 0),
                   cacheRead |-> Usd(0, 2000),
                   batchInput |-> Usd(1, 0), batchOutput |-> Usd(6, 0)]],
     [id |-> GEMINI_3_FLASH_PREVIEW, supportsVision |-> TRUE,
      pricing |-> [input |-> Usd(0, 5000), output |-> Usd(3, 0),
                   cacheRead |-> Usd(0, 500),
                   batchInput |-> Usd(0, 2500), batchOutput |-> Usd(1, 5000)]] >>

\* type LLMProvider
LLMProvider == {"openai", "anthropic", "google"}

\* Array.prototype.includes on an ID list
Includes(ids, modelId) == \E i \in DOMAIN ids : Str(ids[i]) = modelId

getAllModelIds(p) ==
  CASE p = "openai" -> OPENAI_MODEL_IDS
    [] p = "anthropic" -> ANTHROPIC_MODEL_IDS
    [] p = "google" -> GOOGLE_MODEL_IDS

\* the aliases counted as valid IDs
isValidModelId_WithAliases(modelId, p) ==
  CASE p = "openai" -> Includes(OPENAI_MODEL_IDS, resolveOpenAIModelName(modelId))
    [] p = "anthropic" ->
         Includes(ANTHROPIC_MODEL_IDS, resolveAnthropicModelName(modelId))
    [] p = "google" -> Includes(GOOGLE_MODEL_IDS, modelId)


isValidModelId(modelId, p) ==
  CASE p = "openai" -> Includes(OPENAI_MODEL_IDS, modelId)
    [] p = "anthropic" -> Includes(ANTHROPIC_MODEL_IDS, modelId)
    [] p = "google" -> Includes(GOOGLE_MODEL_IDS, modelId)

\* model ? model.supportsVision : false
SupportsVisionIn(models, modelId) ==
  LET hit == Find(models, "id", modelId)
  IN  IF hit # <<>> THEN hit[1].supportsVision ELSE FALSE

modelSupportsVision(p, modelId) ==
  CASE p = "openai" -> SupportsVisionIn(OPENAI_MODELS, modelId)
    [] p = "anthropic" -> SupportsVisionIn(ANTHROPIC_MODELS, modelId)
    [] p = "google" -> SupportsVisionIn(GOOGLE_MODELS, modelId)

\* what a registry query returned: a boolean, or a list of IDs
QueryResult(op, bool, ids) ==
  [kind |-> "query", op |-> op, bool |-> bool, ids |-> ids]

-----------------------------------------------------------------------------
(* The calls: arguments drawn from bounded sets *)

\* small token counts are 0..MaxTokens
MaxTokens == 2

\* web-search query and web-search token counts are 0..MaxQueries
MaxQueries == 1

TokenCounts == {Num(n) : n \in 0..MaxTokens}

\* negative, absent, of the wrong type
InvalidCounts == {Num(-1), Undefined, NonNumber}

OptionalCounts == {Undefined} \cup TokenCounts

OptionalQueries == {Undefined} \cup {Num(n) : n \in 0..MaxQueries}

\* both sides of the tier boundary
BoundaryCounts ==
  {Num(TIERED_PRICING_THRESHOLD_TOKENS), Num(TIERED_PRICING_THRESHOLD_TOKENS + 1)}

\* no name, the empty name, a name no catalog has
NoNames ==
  {UndefinedModel, Str(<<>>),
   Str(<<"n", "o", "t", "-", "a", "-", "r", "e", "a", "l", "-", "m", "o", "d", "e", "l", "-", "x", "y", "z">>),
   Str(<<"g", "p", "t", "-", "9", "-", "d", "o", "e", "s", "-", "n", "o", "t", "-", "e", "x", "i", "s", "t">>)}

AnthropicNames ==
  {Str(ANTHROPIC_MODEL_IDS[i]) : i \in DOMAIN ANTHROPIC_MODEL_IDS}
  \cup {Str(ANTHROPIC_ALIASES[i].alias) : i \in DOMAIN ANTHROPIC_ALIASES}

AnthropicUsages ==
  [input_tokens : TokenCounts \cup BoundaryCounts \cup InvalidCounts,
   output_tokens : TokenCounts \cup InvalidCounts,
   cache_hits : OptionalCounts,
   cache_writes : OptionalCounts,
   batch_mode : {Undefined, Bool(TRUE)},
   web_search_queries : OptionalQueries]

OpenAINames ==
  {Str(OPENAI_MODEL_IDS[i]) : i \in DOMAIN OPENAI_MODEL_IDS}
  \cup {Str(OPENAI_ALIASES[i].alias) : i \in DOMAIN OPENAI_ALIASES}
  \cup {Str(<<"g", "p", "t", "-", "5", "-", "m", "i", "n", "i", "-", "2", "0", "2", "5", "-", "0", "8", "-", "0", "7">>),
        Str(<<"g", "p", "t", "-", "5", ".", "2", "-", "c", "h", "a", "t", "-", "l", "a", "t", "e", "s", "t", "-", "2", "0", "2", "5", "-", "1", "2", "-", "1", "1">>),
        Str(<<"n", "o", "t", "-", "a", "-", "r", "e", "a", "l", "-", "m", "o", "d", "e", "l", "-", "2", "0", "2", "5", "-", "0", "1", "-", "0", "1">>)}

OpenAIUsages ==
  [prompt_tokens : TokenCounts \cup InvalidCounts,
   completion_tokens : TokenCounts \cup InvalidCounts,
   cached_tokens : OptionalCounts,
   web_search_tokens : OptionalQueries,
   web_search_queries : OptionalQueries]

\* enum values with and without a cached rate, the two search-preview
\* models, and names that reach the tests on the lower-cased name
OpenAIPricingNames ==
  {Str(<<"g", "p", "t", "-", "4", "o">>),
   Str(<<"g", "p", "t", "-", "4", "o", "-", "m", "i", "n", "i", "-", "s", "e", "a", "r", "c", "h", "-", "p", "r", "e", "v", "i", "e", "w">>),
   Str(<<"g", "p", "t", "-", "4", "o", "-", "s", "e", "a", "r", "c", "h", "-", "p", "r", "e", "v", "i", "e", "w">>),
   Str(<<"o", "1", "-", "p", "r", "o">>),
   Str(<<"o", "3", "-", "m", "i", "n", "i">>),
   Str(<<"G", "P", "T", "-", "4", "O", "-", "M", "I", "N", "I">>),
   Str(<<"g", "p", "t", "-", "3", ".", "5", "-", "t", "u", "r", "b", "o", "-", "0", "1", "2", "5">>),
   Str(<<"g", "p", "t", "-", "4", "o", "-", "2", "0", "2", "4", "-", "0", "8", "-", "0", "6">>)}

GoogleNames ==
  {Str(GOOGLE_PRICING[i].id) : i \in DOMAIN GOOGLE_PRICING}
  \cup {Str(GOOGLE_MODEL_ALIASES[i].alias) : i \in DOMAIN GOOGLE_MODEL_ALIASES}

GoogleUsages ==
  [prompt_tokens : TokenCounts \cup InvalidCounts,
   completion_tokens : TokenCounts \cup InvalidCounts,
   cached_tokens : OptionalCounts,
   batch_mode : {Undefined, Bool(TRUE)}]

PerplexityNames ==
  {Str(PERPLEXITY_PRICING[i].id) : i \in DOMAIN PERPLEXITY_PRICING}
  \cup {Str(<<"S", "o", "n", "a", "r", "-", "R", "e", "a", "s", "o", "n", "i", "n", "g", "-", "P", "r", "o">>),
        Str(<<"s", "o", "n", "a", "r", "-", "p", "r", "o", "-", "2", "0", "2", "5">>)}

\* search_context_size "" is the absent one
PerplexityUsages ==
  [prompt_tokens : TokenCounts \cup InvalidCounts,
   completion_tokens : TokenCounts \cup InvalidCounts,
   search_context_size : {"", "low", "medium", "high"},
   reasoning_tokens : OptionalCounts]

\* no calculator call and no registry query is part of the run
CalculatorsIdle ==
  /\ provider = "none"
  /\ model = UndefinedModel
  /\ usage = Undefined
  /\ result = NoResult
  /\ query = NoResult

\* no logger is created
LoggerIdle ==
  /\ env = UndefinedModel
  /\ loggerOptions = NoResult
  /\ config = NoResult
  /\ calls = <<>>
  /\ lines = <<>>
  /\ thrown = NoResult

\* no HTTP logging middleware is created
HttpIdle ==
  /\ httpOptions = NoResult
  /\ requests = <<>>

\* withRetry is not called
RetryIdle ==
  /\ delays = <<>>
  /\ attempt = 0
  /\ attemptErrors = <<>>
  /\ invoked = <<>>
  /\ timers = <<>>
  /\ retryPc = "idle"
  /\ retryResult = NoResult

\* no HealthMiddleware is constructed
HealthIdle ==
  /\ now = 0
  /\ startTime = 0
  /\ responseTimes = <<>>
  /\ totalRequests = 0
  /\ successfulRequests = 0
  /\ healthResponse = NoResult
  /\ recorded = <<>>

\* countTokensAnthropicBatch is not called
BatchIdle ==
  /\ batchArgs = NoResult
  /\ batchPc = "idle"
  /\ batchStart = 0
  /\ batchPromises = <<>>
  /\ results = <<>>
  /\ batchTimers = <<>>
  /\ batchOutcome = NoResult

\* no logger, no middleware and no retry is part of a calculator call
ServicesIdle ==
  /\ LoggerIdle
  /\ HttpIdle
  /\ RetryIdle
  /\ HealthIdle
  /\ BatchIdle

Init ==
  /\ ServicesIdle
  /\ result = NoResult
  /\ query = NoResult
  /\ \/ /\ provider = "anthropic"
        /\ model \in AnthropicNames \cup NoNames
        /\ usage \in AnthropicUsages \cup {Undefined}
     \/ /\ provider = "openai"
        /\ model \in OpenAINames \cup NoNames
        /\ usage \in OpenAIUsages \cup {Undefined}
     \/ /\ provider = "openai-pricing"
        /\ model \in OpenAIPricingNames \cup NoNames
        /\ usage \in OpenAIUsages \cup {Undefined}
     \/ /\ provider = "google"
        /\ model \in GoogleNames \cup NoNames
        /\ usage \in GoogleUsages \cup {Undefined}
     \/ /\ provider = "perplexity"
        /\ model \in PerplexityNames \cup NoNames
        /\ usage \in PerplexityUsages \cup {Undefined}

AnthropicCall ==
  /\ provider = "anthropic"
  /\ result' = calculateAnthropicCost(usage, model)
  /\ UNCHANGED <<provider, model, usage, query>>
  /\ UNCHANGED serviceVars

OpenAICall ==
  /\ provider = "openai"
  /\ result' = calculateOpenAICost(model, usage)
  /\ UNCHANGED <<provider, model, usage, query>>
  /\ UNCHANGED serviceVars

OpenAIPricingCall ==
  /\ provider = "openai-pricing"
  /\ result' = calculateOpenAICostFromPricing(model, usage)
  /\ UNCHANGED <<provider, model, usage, query>>
  /\ UNCHANGED serviceVars

GoogleCall ==
  /\ provider = "google"
  /\ result' = calculateGoogleCost(model, usage)
  /\ UNCHANGED <<provider, model, usage, query>>
  /\ UNCHANGED serviceVars

PerplexityCall ==
  /\ provider = "perplexity"
  /\ result' = calculatePerplexityCost(model, usage)
  /\ UNCHANGED <<provider, model, usage, query>>
  /\ UNCHANGED serviceVars

Next ==
  \/ AnthropicCall \/ OpenAICall \/ OpenAIPricingCall
  \/ GoogleCall \/ PerplexityCall

Spec == Init /\ [][Next]_vars

-----------------------------------------------------------------------------
(* A session: calculator calls and registry queries in any order, on *)
(* arguments that stay those of the caller                           *)

\* the usages of a set whose counts, where given, are 1
OnesOf(usages) ==
  {u \in usages :
     \A f \in DOMAIN u \ {"search_context_size"} :
       u[f] \in {Undefined, Num(1), Bool(TRUE)}}

SessionInit ==
  /\ ServicesIdle
  /\ result = NoResult
  /\ query = NoResult
  /\ \/ /\ provider = "anthropic"
        /\ model \in AnthropicNames \cup NoNames
        /\ usage \in OnesOf(AnthropicUsages) \cup {Undefined}
     \/ /\ provider = "openai"
        /\ model \in OpenAINames \cup NoNames
        /\ usage \in OnesOf(OpenAIUsages) \cup {Undefined}
     \/ /\ provider = "openai-pricing"
        /\ model \in OpenAIPricingNames \cup NoNames
        /\ usage \in OnesOf(OpenAIUsages) \cup {Undefined}
     \/ /\ provider = "google"
        /\ model \in GoogleNames \cup NoNames
                     \cup {Str(GOOGLE_MODEL_IDS[i]) : i \in DOMAIN GOOGLE_MODEL_IDS}
        /\ usage \in OnesOf(GoogleUsages) \cup {Undefined}
     \/ /\ provider = "perplexity"
        /\ model \in PerplexityNames \cup NoNames
        /\ usage \in OnesOf(PerplexityUsages) \cup {Undefined}

IsValidModelIdCall ==
  /\ provider \in LLMProvider
  /\ query' = QueryResult("isValidModelId", isValidModelId(model, provider), <<>>)
  /\ UNCHANGED <<provider, model, usage, result>>
  /\ UNCHANGED serviceVars

GetAllModelIdsCall ==
  /\ provider \in LLMProvider
  /\ query' = QueryResult("getAllModelIds", FALSE, getAllModelIds(provider))
  /\ UNCHANGED <<provider, model, usage, result>>
  /\ UNCHANGED serviceVars

ModelSupportsVisionCall ==
  /\ provider \in LLMProvider
  /\ query' = QueryResult("modelSupportsVision",
                          modelSupportsVision(provider, model), <<>>)
  /\ UNCHANGED <<provider, model, usage, result>>
  /\ UNCHANGED serviceVars

SessionNext ==
  \/ Next
  \/ IsValidModelIdCall \/ GetAllModelIdsCall \/ ModelSupportsVisionCall

Session == SessionInit /\ [][SessionNext]_vars

-----------------------------------------------------------------------------
(* What the claims read from a state *)

\* the call of this state has returned a cost breakdown with no NaN in it
Returned == result.kind = "ok" /\ result.nan = {}

\* the call of this state has thrown
Thrown == result.kind = "error"

\* a numeric, non-negative count
IsCount(x) == x.t = "number" /\ x.v >= 0

\* an optional count that is absent or 0
NoneOf(x) == x.t = "undefined" \/ (x.t = "number" /\ x.v = 0)

\* the usage of this state is a record whose two required counts are valid
ValidUsage ==
  /\ usage # Undefined
  /\ IF provider = "anthropic"
     THEN IsCount(usage.input_tokens) /\ IsCount(usage.output_tokens)
     ELSE IsCount(usage.prompt_tokens) /\ IsCount(usage.completion_tokens)

\* the Anthropic pricing of the model of this state (a priced model)
AnthropicPricingOfCall == findAnthropicModel(model).pricing

-----------------------------------------------------------------------------
(* C1 *)

\* C1: in standard (non-batch) mode a tiered Anthropic model is priced at its
\* base rates (inputBase, output, cacheWrite, cacheRead) when input_tokens is
\* at most 200,000 and at the over-200k variant of all four when it is 200,001
\* or more, whatever is cached, and every token of the request at that one
\* tier; a model with tiered = false is priced at its base rates at every size.
C1_TierSelection ==
  (provider = "anthropic" /\ Returned /\ ValidUsage /\ ~Truthy(usage.batch_mode)) =>
    LET p == AnthropicPricingOfCall
        n == usage.input_tokens.v
        hits == OrDefault(usage.cache_hits, 0)
        writes == OrDefault(usage.cache_writes, 0)
        over == p.tiered /\ n >= 200001
        under == ~p.tiered \/ n <= 200000
    IN  /\ over \/ under
        /\ under =>
             /\ result.input = Max(0, n - hits - writes) * p.inputBase
                               + hits * p.cacheRead + writes * p.cacheWrite
             /\ result.output = usage.output_tokens.v * p.output
        /\ over =>
             /\ result.input = Max(0, n - hits - writes) * p.inputBaseOver200k
                               + hits * p.cacheReadOver200k
                               + writes * p.cacheWriteOver200k
             /\ result.output = usage.output_tokens.v * p.outputOver200k

\* a tiered model just over the boundary, with cached tokens, has been priced
C1_Witness ==
  /\ provider = "anthropic" /\ Returned /\ ~Truthy(usage.batch_mode)
  /\ AnthropicPricingOfCall.tiered
  /\ usage.input_tokens.v = 200001
  /\ OrDefault(usage.cache_hits, 0) > 0
  /\ OrDefault(usage.cache_writes, 0) > 0
  /\ usage.output_tokens.v > 0

\* the model name of this state resolves to a model the provider's
\* calculator has a price for
PricedModel ==
  /\ model.t = "string"
  /\ CASE provider = "anthropic" -> "kind" \notin DOMAIN findAnthropicModel(model)
       [] provider = "openai" -> "kind" \notin DOMAIN findOpenAIModel(model)
       [] provider = "openai-pricing" ->
            Find(OPENAI_MODEL_PRICING, "id", Str(normalizeOpenAIModel(model.s))) # <<>>
       [] provider = "google" -> "kind" \notin DOMAIN getModelPricing(model)
       [] provider = "perplexity" -> normalizeModel(model.s) # <<>>

\* the prompt count and the cached counts of the usage of this state
PromptTokens ==
  IF provider = "anthropic" THEN usage.input_tokens.v ELSE usage.prompt_tokens.v

CachedTokens ==
  IF provider = "anthropic"
  THEN OrDefault(usage.cache_hits, 0) + OrDefault(usage.cache_writes, 0)
  ELSE OrDefault(usage.cached_tokens, 0)

\* webSearchQueryCost ?? 0 of the returned breakdown
QueryCostOrZero ==
  IF "webSearchQueryCost" \in result.fields THEN result.webSearchQueryCost ELSE 0

-----------------------------------------------------------------------------
(* C2 *)

\* C2: for a model of the sonar-deep-research family with reasoning_tokens > 0
\* the returned total is input + output + (reasoning_tokens / 1000) x the
\* reasoning rate, with input and output as for reasoning_tokens = 0; for every
\* other family reasoning_tokens changes no field of the result.
C2_ReasoningSurcharge ==
  (provider = "perplexity" /\ Returned /\ ValidUsage) =>
    LET key == normalizeModel(model.s)[1]
        reasoning == OrDefault(usage.reasoning_tokens, 0)
        rate == Find(PERPLEXITY_PRICING, "id", Str(SONAR_DEEP_RESEARCH))[1].reasoning
        without == calculatePerplexityCost(
                     model, [usage EXCEPT !.reasoning_tokens = Num(0)])
    IN  IF key = SONAR_DEEP_RESEARCH /\ reasoning > 0
        THEN /\ result.total = result.input + result.output + reasoning * rate
             /\ result.input = without.input
             /\ result.output = without.output
        ELSE result = without

-----------------------------------------------------------------------------
(* C3 *)

\* C3: in the cache-aware calculators (Anthropic, OpenAI, Google) a usage
\* whose cached counts exceed its prompt count does not make the call fail:
\* a cost breakdown is returned.
C3_OverReportedCacheTolerated ==
  ( /\ provider \in {"anthropic", "openai", "google"}
    /\ result # NoResult
    /\ PricedModel /\ ValidUsage
    /\ CachedTokens > PromptTokens ) => Returned

-----------------------------------------------------------------------------
(* C4 *)

\* C4 as stated: on an accepted usage the returned total is the returned
\* input + output + (webSearchQueryCost or 0), rounded to 6 decimal places.
C4_TotalIsRoundedSum ==
  (Returned /\ ValidUsage) =>
    result.total = Round6(result.input + result.output + QueryCostOrZero)

\* C4 as amended: the returned total is the returned input + output +
\* (webSearchQueryCost or 0) within rounding tolerance: exactly that sum,
\* unrounded, from the Anthropic and Perplexity calculators, and from the
\* OpenAI and Google calculators a whole number of millionths of a dollar
\* that is within one millionth of that sum.
C4_TotalWithinRounding ==
  Returned =>
    LET sum == result.input + result.output + QueryCostOrZero
    IN  IF provider \in {"anthropic", "perplexity"}
        THEN result.total = sum
        ELSE /\ result.total = Round6(result.total)
             /\ result.total - sum <= UnitsPerMicroDollar
             /\ sum - result.total <= UnitsPerMicroDollar

\* a breakdown whose rounded total is not the sum of its rounded parts
C4_Witness ==
  /\ provider \in {"openai", "google"} /\ Returned /\ ValidUsage
  /\ result.total # result.input + result.output + QueryCostOrZero

-----------------------------------------------------------------------------
(* C5 *)

\* the required counts of the usage of this state that are absent, not a
\* number or negative, by field name
InvalidFields ==
  IF provider = "anthropic"
  THEN {f \in {"input_tokens", "output_tokens"} : ~IsCount(usage[f])}
  ELSE {f \in {"prompt_tokens", "completion_tokens"} : ~IsCount(usage[f])}

\* C5: every calculator rejects a usage whose prompt/input or
\* completion/output count is missing, not a number or negative, with an
\* error that names the offending field, and returns no cost breakdown.
C5_InvalidCountsRejected ==
  ( /\ result # NoResult
    /\ PricedModel
    /\ usage # Undefined
    /\ InvalidFields # {} ) =>
      Thrown /\ result.field \in InvalidFields

-----------------------------------------------------------------------------
(* C6 *)

\* the IDs the calculator of the provider of this state can price
PricedIds ==
  CASE provider = "anthropic" -> ANTHROPIC_MODEL_IDS
    [] provider = "openai" -> OPENAI_MODEL_IDS
    [] provider = "google" -> [i \in DOMAIN GOOGLE_PRICING |-> GOOGLE_PRICING[i].id]

\* C6: for each provider a cost calculation with a name that matches no
\* entry after resolution fails with an error that carries the attempted name
\* and the list of the valid model IDs of that provider.
C6_UnknownModelCarriesNameAndIds ==
  ( /\ provider \in {"anthropic", "openai", "google"}
    /\ result # NoResult
    /\ ValidUsage
    /\ ~Falsy(model) /\ ~PricedModel ) =>
      /\ Thrown
      /\ result.what = "Unknown model"
      /\ result.name = model
      /\ result.available = PricedIds

-----------------------------------------------------------------------------
(* C7 *)

\* C7: every calculator fails with a missing-argument error when the model
\* name is absent or empty or when the usage object is absent, before any
\* model lookup or arithmetic.
C7_MissingArgumentRejected ==
  (result # NoResult /\ (Falsy(model) \/ usage = Undefined)) =>
    /\ Thrown
    /\ result.what = "required"
    /\ result.field = IF Falsy(model) THEN "model" ELSE "usage"

-----------------------------------------------------------------------------
(* C8 *)

\* C8: in Anthropic batch mode the input cost is input_tokens x batchInput and
\* the output cost output_tokens x batchOutput (per million), whatever
\* cache_hits and cache_writes are and on either side of the 200k boundary:
\* the result is the one of the same call without the cache fields.
C8_BatchIgnoresCache ==
  (provider = "anthropic" /\ Returned /\ ValidUsage /\ Truthy(usage.batch_mode)) =>
    LET p == AnthropicPricingOfCall
    IN  /\ result.input = usage.input_tokens.v * p.batchInput
        /\ result.output = usage.output_tokens.v * p.batchOutput
        /\ result = calculateAnthropicCost(
                      [usage EXCEPT !.cache_hits = Undefined,
                                    !.cache_writes = Undefined], model)

\* a batch call over the boundary that reports cache reads and writes
C8_Witness ==
  /\ provider = "anthropic" /\ Returned /\ ValidUsage
  /\ Truthy(usage.batch_mode)
  /\ usage.input_tokens.v = 200001
  /\ OrDefault(usage.cache_hits, 0) > 0
  /\ OrDefault(usage.cache_writes, 0) > 0
  /\ result.input > 0

-----------------------------------------------------------------------------
(* C9 *)

\* C9: calculateGoogleCost takes exactly one input-pricing branch: with
\* batch_mode set and batch rates offered, all prompt tokens at batchInput and
\* the output at batchOutput, cached_tokens ignored; otherwise with
\* cached_tokens > 0 and a cacheRead rate offered, the cached slice at
\* cacheRead and the remainder at input; otherwise all prompt tokens at input;
\* and outside the batch branch the output at the base output rate.
C9_GoogleBranch ==
  (provider = "google" /\ Returned /\ ValidUsage) =>
    LET p == getModelPricing(model)
        n == usage.prompt_tokens.v
        out == usage.completion_tokens.v
        cached == OrDefault(usage.cached_tokens, 0)
        batch == /\ usage.batch_mode = Bool(TRUE)
                 /\ "batchInput" \in DOMAIN p /\ "batchOutput" \in DOMAIN p
    IN  IF batch
        THEN /\ result.input = Round6(n * p.batchInput)
             /\ result.output = Round6(out * p.batchOutput)
        ELSE IF cached > 0 /\ "cacheRead" \in DOMAIN p
        THEN /\ result.input = Round6((n - cached) * p.input + cached * p.cacheRead)
             /\ result.output = Round6(out * p.output)
        ELSE /\ result.input = Round6(n * p.input)
             /\ result.output = Round6(out * p.output)

\* a batch call with cached tokens on a model that offers both rates
C9_Witness ==
  /\ provider = "google" /\ Returned /\ ValidUsage
  /\ usage.batch_mode = Bool(TRUE)
  /\ OrDefault(usage.cached_tokens, 0) > 0
  /\ usage.prompt_tokens.v >= OrDefault(usage.cached_tokens, 0)
  /\ {"batchInput", "batchOutput", "cacheRead"} \subseteq DOMAIN getModelPricing(model)
  /\ result.input > 0

-----------------------------------------------------------------------------
(* C10 *)

\* C10: in the cache-aware paths of the Anthropic, OpenAI and Google
\* calculators, with the cached counts within the prompt count, the tokens
\* priced at the base input rate plus the tokens priced at cache rates are the
\* prompt tokens, and the input cost is the one of that split; with every
\* cached count 0 or absent the input cost is all prompt tokens at the base
\* input rate (for OpenAI, next to the web-search tokens it also holds).
C10_CacheCarveOutAdditive ==
  ( /\ provider \in {"anthropic", "openai", "google"}
    /\ Returned /\ ValidUsage
    /\ CachedTokens <= PromptTokens ) =>
    LET n == PromptTokens
    IN  CASE provider = "anthropic" /\ ~Truthy(usage.batch_mode) ->
               LET p == AnthropicPricingOfCall
                   over == p.tiered /\ n > 200000
                   base == IF over THEN p.inputBaseOver200k ELSE p.inputBase
                   read == IF over THEN p.cacheReadOver200k ELSE p.cacheRead
                   write == IF over THEN p.cacheWriteOver200k ELSE p.cacheWrite
                   hits == OrDefault(usage.cache_hits, 0)
                   writes == OrDefault(usage.cache_writes, 0)
               IN  /\ anthropicBaseInputTokens(usage) + hits + writes = n
                   /\ result.input = (n - hits - writes) * base
                                     + hits * read + writes * write
                   /\ CachedTokens = 0 => result.input = n * base
          [] provider = "openai" ->
               LET p == findOpenAIModel(model).pricing
                   cached == OrDefault(usage.cached_tokens, 0)
                   search == OrDefault(usage.web_search_tokens, 0) * p.input
               IN  /\ openaiNonCachedTokens(usage) + cached = n
                   /\ result.input = Round6((n - cached) * p.input
                                            + cached * p.cached + search)
                   /\ CachedTokens = 0 => result.input = Round6(n * p.input + search)
          [] provider = "google" /\ ~Truthy(usage.batch_mode)
                                 /\ "cacheRead" \in DOMAIN getModelPricing(model) ->
               LET p == getModelPricing(model)
                   cached == OrDefault(usage.cached_tokens, 0)
               IN  /\ googleNonCachedTokens(p, usage) + cached = n
                   /\ result.input = Round6((n - cached) * p.input
                                            + cached * p.cacheRead)
                   /\ CachedTokens = 0 => result.input = Round6(n * p.input)
          [] OTHER -> TRUE

\* an Anthropic call with cache reads and writes that add up to less than
\* its input tokens
C10_Witness ==
  /\ provider = "anthropic" /\ Returned /\ ValidUsage
  /\ ~Truthy(usage.batch_mode)
  /\ OrDefault(usage.cache_hits, 0) > 0
  /\ OrDefault(usage.cache_writes, 0) > 0
  /\ CachedTokens < PromptTokens

-----------------------------------------------------------------------------
(* C11 *)

\* C11: in calculateAnthropicCost web_search_queries = q adds exactly
\* (q / 1000) x $10.00 to the total and is reported as webSearchQueryCost, with
\* webSearchQueries = q (0 when absent); input and output are those of the
\* same call without web search queries, in batch and in standard mode.
C11_AnthropicWebSearch ==
  (provider = "anthropic" /\ Returned /\ ValidUsage) =>
    LET q == IF usage.web_search_queries = Undefined
             THEN 0 ELSE usage.web_search_queries.v
        charge == (q * Usd(10, 0)) * 1000
        without == calculateAnthropicCost(
                     [usage EXCEPT !.web_search_queries = Undefined], model)
    IN  /\ result.webSearchQueries = q
        /\ result.webSearchQueryCost = charge
        /\ result.input = without.input
        /\ result.output = without.output
        /\ result.total = result.input + result.output + charge
        /\ without.webSearchQueries = 0 /\ without.webSearchQueryCost = 0

\* a batch call that reports a web search query
C11_Witness ==
  /\ provider = "anthropic" /\ Returned /\ ValidUsage
  /\ usage.web_search_queries # Undefined
  /\ usage.web_search_queries.v > 0
  /\ result.webSearchQueryCost > 0
  /\ result.input > 0 /\ result.output > 0
  /\ Truthy(usage.batch_mode)

-----------------------------------------------------------------------------
(* C12 *)

\* the pricing the OpenAI calculator of this state uses for its model
OpenAIPricingOfCall ==
  IF provider = "openai" THEN findOpenAIModel(model).pricing
  ELSE Find(OPENAI_MODEL_PRICING, "id", Str(normalizeOpenAIModel(model.s)))[1].pricing

\* the OpenAI calculator of this state on another usage
OpenAICostOfCall(u) ==
  IF provider = "openai" THEN calculateOpenAICost(model, u)
  ELSE calculateOpenAICostFromPricing(model, u)

\* C12: in calculateOpenAICost, with cached_tokens > 0 and a cached rate the
\* input cost is (prompt_tokens - cached_tokens) at the input rate plus
\* cached_tokens at the cached rate; without a cached rate, or with
\* cached_tokens 0 or absent, all prompt tokens are at the input rate; the
\* output cost is completion_tokens at the output rate whatever cached_tokens
\* is.  (The returned input field also holds the web-search tokens, C13.)
C12_OpenAICachedSplit ==
  (provider \in {"openai", "openai-pricing"} /\ Returned) =>
    LET p == OpenAIPricingOfCall
        n == usage.prompt_tokens.v
        cached == IF usage.cached_tokens = Undefined
                  THEN 0 ELSE usage.cached_tokens.v
        search == IF usage.web_search_tokens = Undefined
                  THEN 0 ELSE usage.web_search_tokens.v * p.input
        inputCost == IF cached > 0 /\ "cached" \in DOMAIN p
                     THEN (n - cached) * p.input + cached * p.cached
                     ELSE n * p.input
    IN  /\ result.input = Round6(inputCost + search)
        /\ result.output = Round6(usage.completion_tokens.v * p.output)
        /\ result.output =
             OpenAICostOfCall([usage EXCEPT !.cached_tokens = Undefined]).output

\* a call that splits its prompt into a cached and a non-cached slice
C12_Witness ==
  /\ provider = "openai" /\ Returned
  /\ usage.cached_tokens # Undefined
  /\ usage.cached_tokens.v > 0
  /\ usage.cached_tokens.v < usage.prompt_tokens.v
  /\ usage.completion_tokens.v > 0
  /\ result.input > 0

-----------------------------------------------------------------------------
(* C13 *)

\* C13: in calculateOpenAICost web_search_tokens are billed at the input rate
\* of the model and folded into the returned input field, with no field of
\* their own; web_search_queries are billed at a flat rate per 1000 queries,
\* $30 unless the model has an override ($25 for gpt-4o-mini-search-preview),
\* reported as webSearchQueryCost, added to the total and folded into neither
\* input nor output.
C13_OpenAIWebSearch ==
  (provider \in {"openai", "openai-pricing"} /\ Returned) =>
    LET p == OpenAIPricingOfCall
        n == usage.prompt_tokens.v
        cached == IF usage.cached_tokens = Undefined
                  THEN 0 ELSE usage.cached_tokens.v
        tokens == IF usage.web_search_tokens = Undefined
                  THEN 0 ELSE usage.web_search_tokens.v
        q == IF usage.web_search_queries = Undefined
             THEN 0 ELSE usage.web_search_queries.v
        perQuery ==
          IF /\ provider = "openai-pricing"
             /\ normalizeOpenAIModel(model.s) = GPT_4O_MINI_SEARCH_PREVIEW
          THEN Usd(25, 0) * 1000 ELSE Usd(30, 0) * 1000
        promptCost == IF cached > 0 /\ "cached" \in DOMAIN p
                      THEN (n - cached) * p.input + cached * p.cached
                      ELSE n * p.input
        noQueries ==
          OpenAICostOfCall([usage EXCEPT !.web_search_queries = Undefined])
    IN  /\ result.fields = {"input", "output", "total",
                            "webSearchQueries", "webSearchQueryCost"}
        /\ result.input = Round6(promptCost + tokens * p.input)
        /\ result.webSearchQueries = q
        /\ result.webSearchQueryCost = q * perQuery
        /\ result.input = noQueries.input
        /\ result.output = noQueries.output
        /\ result.total = noQueries.total + q * perQuery

\* a call on the model with the $25 override, with web-search tokens and a
\* web-search query
C13_Witness ==
  /\ provider = "openai-pricing" /\ Returned
  /\ normalizeOpenAIModel(model.s) = GPT_4O_MINI_SEARCH_PREVIEW
  /\ usage.web_search_tokens # Undefined /\ usage.web_search_tokens.v > 0
  /\ usage.web_search_queries # Undefined /\ usage.web_search_queries.v > 0
  /\ result.webSearchQueryCost > 0

-----------------------------------------------------------------------------
(* C14 *)

\* the count fields of the usage record of each calculator
CountFields ==
  CASE provider = "anthropic" ->
         {"input_tokens", "output_tokens", "cache_hits", "cache_writes",
          "web_search_queries"}
    [] provider \in {"openai", "openai-pricing"} ->
         {"prompt_tokens", "completion_tokens", "cached_tokens",
          "web_search_tokens", "web_search_queries"}
    [] provider = "google" ->
         {"prompt_tokens", "completion_tokens", "cached_tokens"}
    [] provider = "perplexity" ->
         {"prompt_tokens", "completion_tokens", "reasoning_tokens"}

\* the required counts are there and no count of the usage is negative
NonNegativeUsage ==
  /\ ValidUsage
  /\ \A f \in CountFields : usage[f] = Undefined \/ IsCount(usage[f])

\* C14: for a usage with non-negative token counts and a known model, every
\* numeric field of a returned cost breakdown (input, output, total,
\* webSearchQueryCost) is >= 0, whichever calculator returned it.
C14_NonNegative ==
  (Returned /\ PricedModel /\ NonNegativeUsage) =>
    /\ result.nan = {}
    /\ result.input >= 0
    /\ result.output >= 0
    /\ result.total >= 0
    /\ result.webSearchQueries >= 0
    /\ result.webSearchQueryCost >= 0

\* an Anthropic call whose cache counts exceed its input tokens: the
\* remainder priced at the base rate is held at 0
C14_Witness ==
  /\ provider = "anthropic" /\ Returned /\ NonNegativeUsage
  /\ ~Truthy(usage.batch_mode)
  /\ CachedTokens > PromptTokens
  /\ result.input > 0

-----------------------------------------------------------------------------
(* C15 *)

\* C15: the input, output and total fields returned by every calculator are
\* rounded to 6 decimal places: each is a whole number of millionths of a
\* dollar.
C15_RoundedToSixDecimals ==
  (Returned /\ PricedModel /\ NonNegativeUsage) =>
    /\ result.input = Round6(result.input)
    /\ result.output = Round6(result.output)
    /\ result.total = Round6(result.total)

-----------------------------------------------------------------------------
(* C16 *)

\* the Perplexity family names that are a prefix of the lower-cased name
PrefixFamilies(chars) ==
  {f \in {SONAR, SONAR_PRO, SONAR_REASONING, SONAR_REASONING_PRO,
          SONAR_DEEP_RESEARCH} : StartsWith(ToLowerCase(chars), f)}

\* C16: Perplexity normalization maps a model name, case-insensitively, to
\* the longest of sonar, sonar-pro, sonar-reasoning, sonar-reasoning-pro,
\* sonar-deep-research that is a prefix of it, and the call is priced at the
\* rates of that family; a name with none of these prefixes makes
\* calculatePerplexityCost fail with an unknown-model error.
C16_LongestPrefixFamily ==
  (provider = "perplexity" /\ result # NoResult /\ model.t = "string") =>
    LET families == PrefixFamilies(model.s)
    IN  IF families = {}
        THEN /\ normalizeModel(model.s) = <<>>
             /\ Thrown
             /\ result.what = "Unknown model"
             /\ result.name = model
        ELSE LET longest == CHOOSE f \in families :
                              \A g \in families : Len(g) <= Len(f)
                 rates == Find(PERPLEXITY_PRICING, "id", Str(longest))[1]
                 size == IF usage.search_context_size = ""
                         THEN "low" ELSE usage.search_context_size
             IN  /\ normalizeModel(model.s) = <<longest>>
                 /\ ValidUsage =>
                      /\ Returned
                      /\ result.input = usage.prompt_tokens.v * rates.input[size]
                      /\ result.output =
                           usage.completion_tokens.v * rates.output[size]

\* a call whose name, in another case, has three family names as prefixes
C16_Witness ==
  /\ provider = "perplexity" /\ Returned /\ ValidUsage
  /\ model.s # ToLowerCase(model.s)
  /\ Cardinality(PrefixFamilies(model.s)) = 3
  /\ normalizeModel(model.s) = <<SONAR_REASONING_PRO>>
  /\ result.input > 0 /\ result.output > 0

-----------------------------------------------------------------------------
(* C17 *)

\* C17: model-name resolution is idempotent for every provider: resolving a
\* resolved name returns it unchanged, for every alias, canonical ID,
\* date-suffixed name and unknown name (no alias maps to another alias, no
\* canonical ID is rewritten).
C17_ResolveIdempotent ==
  (model.t = "string") =>
    CASE provider = "anthropic" ->
           resolveAnthropicModelName(resolveAnthropicModelName(model))
             = resolveAnthropicModelName(model)
      [] provider = "openai" ->
           resolveOpenAIModelName(resolveOpenAIModelName(model))
             = resolveOpenAIModelName(model)
      [] provider = "google" ->
           resolveModelName(resolveModelName(model)) = resolveModelName(model)
      [] provider = "openai-pricing" ->
           normalizeOpenAIModel(normalizeOpenAIModel(model.s))
             = normalizeOpenAIModel(model.s)
      [] provider = "perplexity" ->
           LET modelKey == normalizeModel(model.s)
           IN  modelKey # <<>> => normalizeModel(modelKey[1]) = modelKey

\* a call that resolved a date-suffixed name to a canonical ID
C17_Witness ==
  /\ provider = "openai" /\ Returned
  /\ EndsWithDate(model.s)
  /\ resolveOpenAIModelName(model) # model
  /\ resolveOpenAIModelName(model) = Str(GPT_5_MINI)

-----------------------------------------------------------------------------
(* C18 *)

\* C18: resolveOpenAIModelName resolves in two stages: an exact alias match
\* wins; otherwise one trailing -YYYY-MM-DD suffix is stripped and the
\* stripped name is retried against the alias table and the known model IDs;
\* if still unresolved the input is returned unchanged, with its suffix.  The
\* result is a canonical registry ID or the unmodified input.
C18_OpenAIResolveStages ==
  (provider = "openai" /\ model.t = "string") =>
    LET resolved == resolveOpenAIModelName(model)
        AliasOf(name) == {a \in {OPENAI_ALIASES[i] : i \in DOMAIN OPENAI_ALIASES} :
                            a.alias = name}
        Ids == {OPENAI_MODEL_IDS[i] : i \in DOMAIN OPENAI_MODEL_IDS}
        stripped == IF EndsWithDate(model.s)
                    THEN SubSeq(model.s, 1, Len(model.s) - 11)
                    ELSE model.s
    IN  /\ IF AliasOf(model.s) # {}
           THEN \E a \in AliasOf(model.s) : resolved.s = a.id
           ELSE IF AliasOf(stripped) # {}
           THEN \E a \in AliasOf(stripped) : resolved.s = a.id
           ELSE IF stripped \in Ids THEN resolved.s = stripped
           ELSE resolved = model
        /\ resolved.t = "string"
        /\ resolved.s \in Ids \/ resolved = model

\* a call whose date-suffixed name matched no alias and no ID after the
\* suffix was stripped: the error names the input with its suffix
C18_Witness ==
  /\ provider = "openai" /\ Thrown /\ ValidUsage
  /\ EndsWithDate(model.s)
  /\ resolveOpenAIModelName(model) = model
  /\ result.what = "Unknown model"
  /\ result.name = model

-----------------------------------------------------------------------------
(* C19 *)

\* is the model name of this state one of the IDs of the catalog of its
\* provider
InCatalog ==
  /\ model.t = "string"
  /\ CASE provider = "anthropic" ->
            model.s \in {CLAUDE_OPUS_4_6, CLAUDE_SONNET_4_6, CLAUDE_HAIKU_4_5_20251001}
       [] provider = "openai" -> model.s \in {GPT_5_2, GPT_5_MINI, GPT_5_NANO}
       [] provider = "google" ->
            model.s \in {GEMINI_3_1_PRO_PREVIEW, GEMINI_3_FLASH_PREVIEW}

\* C19: the registry queries never fail: for every provider and every id,
\* isValidModelId and modelSupportsVision return a boolean, false for an id
\* that is not in the catalog of the provider (an alias included), and
\* getAllModelIds returns the ID list of the provider; isValidModelId(id, p) is
\* true exactly when id is a member of getAllModelIds(p).
C19_RegistryQueries ==
  (query # NoResult) =>
    /\ query.kind = "query"
    /\ query.op = "isValidModelId" =>
         /\ query.bool \in BOOLEAN
         /\ query.bool = InCatalog
         /\ query.bool =
              \E i \in DOMAIN getAllModelIds(provider) :
                 Str(getAllModelIds(provider)[i]) = model
    /\ query.op = "modelSupportsVision" =>
         /\ query.bool \in BOOLEAN
         /\ ~InCatalog => query.bool = FALSE
         /\ InCatalog =>
              query.bool = (provider \in {"anthropic", "google"} \/ model.s = GPT_5_2)
    /\ query.op = "getAllModelIds" =>
         query.ids =
           CASE provider = "anthropic" ->
                  <<CLAUDE_OPUS_4_6, CLAUDE_SONNET_4_6, CLAUDE_HAIKU_4_5_20251001>>
             [] provider = "openai" -> <<GPT_5_2, GPT_5_MINI, GPT_5_NANO>>
             [] provider = "google" ->
                  <<GEMINI_3_1_PRO_PREVIEW, GEMINI_3_FLASH_PREVIEW>>

\* isValidModelId asked about an alias that the calculator resolves
C19_Witness ==
  /\ query # NoResult
  /\ query.op = "isValidModelId"
  /\ provider = "anthropic"
  /\ resolveAnthropicModelName(model) # model
  /\ Returned
  /\ query.bool = FALSE

-----------------------------------------------------------------------------
(* C20 *)

\* what the calculator of the provider of this state returns on the
\* arguments of this state
CostOfCall ==
  CASE provider = "anthropic" -> calculateAnthropicCost(usage, model)
    [] provider = "openai" -> calculateOpenAICost(model, usage)
    [] provider = "openai-pricing" -> calculateOpenAICostFromPricing(model, usage)
    [] provider = "google" -> calculateGoogleCost(model, usage)
    [] provider = "perplexity" -> calculatePerplexityCost(model, usage)

-----------------------------------------------------------------------------
(* Logger: createLogger and its five level methods                       *)

\* enum LogLevel
LogLevel == [ERROR |-> 0, WARN |-> 1, INFO |-> 2, DEBUG |-> 3, TRACE |-> 4]

\* the reverse mapping of the enum, LogLevel[n]: the name of level n
LogLevelName(n) == <<"ERROR", "WARN", "INFO", "DEBUG", "TRACE">>[n + 1]

\* the keys of the enum object: the five names as characters, and "0".."4"
LogLevelKeys ==
  <<<<"E", "R", "R", "O", "R">>, <<"W", "A", "R", "N">>, <<"I", "N", "F", "O">>,
    <<"D", "E", "B", "U", "G">>, <<"T", "R", "A", "C", "E">>>>

LogLevelIndexKeys == <<<<"0">>, <<"1">>, <<"2">>, <<"3">>, <<"4">>>>

\* null
Null == [t |-> "null", v |-> 0]

\* a nested object { ... } as a metadata value
NestedObject == [t |-> "object", v |-> 0]

\* an array [ ... ] as a metadata value
ArrayValue == [t |-> "array", v |-> 0]

\* String.prototype.toUpperCase, on the characters
ToUpperCase(chars) ==
  [i \in DOMAIN chars |->
     IF \E k \in DOMAIN LowerCase : LowerCase[k] = chars[i]
     THEN UpperCase[CHOOSE k \in DOMAIN LowerCase : LowerCase[k] = chars[i]]
     ELSE chars[i]]

isPrimitive(value) ==
  \/ value.t = "null"
  \/ value.t = "undefined"
  \/ value.t = "string"
  \/ value.t = "number"
  \/ value.t = "boolean"

\* no error thrown
NoError == [kind |-> "none"]

\* the Error of validateFlatMetadata: its message names the value type and the key
NestedMetadataError(valueType, key) ==
  [kind |-> "error", valueType |-> valueType, key |-> key]

\* Object.entries(metadata).forEach: the first entry that is not primitive throws
validateFlatMetadata(metadata) ==
  LET nested == {i \in DOMAIN metadata : ~isPrimitive(metadata[i].value)} IN
  IF nested = {} THEN NoError
  ELSE LET first == CHOOSE i \in nested : \A j \in nested : i <= j
           valueType == IF metadata[first].value.t = "array"
                        THEN "array" ELSE "object"
       IN NestedMetadataError(valueType, metadata[first].key)

\* upperLevel in LogLevel picks the numeric value of a name; the key of a
\* reverse mapping ("0".."4") picks the name, a string
parseLogLevel(level) ==
  IF Falsy(level) THEN Undefined
  ELSE LET upperLevel == ToUpperCase(level.s) IN
       IF \E n \in DOMAIN LogLevelKeys : LogLevelKeys[n] = upperLevel
       THEN Num((CHOOSE n \in DOMAIN LogLevelKeys : LogLevelKeys[n] = upperLevel) - 1)
       ELSE IF \E n \in DOMAIN LogLevelIndexKeys : LogLevelIndexKeys[n] = upperLevel
       THEN NonNumber
       ELSE Undefined

\* the config of createLogger(serviceName, options), LOG_LEVEL being envValue
createLogger(serviceName, options, envValue) ==
  LET envLogLevel == parseLogLevel(envValue) IN
  [serviceName |-> serviceName,
   module |-> options.module,
   minLevel |-> IF envLogLevel # Undefined
                THEN envLogLevel
                ELSE IF Truthy(options.minLevel)
                     THEN options.minLevel
                     ELSE Num(LogLevel.INFO)]

\* level > config.minLevel; a minLevel that is a level name compares as NaN
AboveMinLevel(level, minLevel) ==
  minLevel.t = "number" /\ level > minLevel.v

\* log(level, message, metadata) of a logger with this config: suppressed,
\* thrown by the validation, or the entry handed to outputLog
log(cfg, level, message, metadata) ==
  IF AboveMinLevel(level, cfg.minLevel)
  THEN [kind |-> "suppressed"]
  ELSE LET invalid == validateFlatMetadata(metadata) IN
       IF invalid # NoError THEN invalid
       ELSE [kind |-> "written",
             entry |-> [level |-> LogLevelName(level),
                        message |-> message,
                        service |-> cfg.serviceName,
                        module |-> cfg.module,
                        metadata |-> metadata]]

\* the logger's calls, lines and last error after one more call of log:
\* outputLog writes one console line for the entry
AfterLog(l, cfg, level, message, metadata) ==
  LET r == log(cfg, level, message, metadata) IN
  [calls |-> Append(l.calls, [level |-> level, message |-> message,
                              metadata |-> metadata, outcome |-> r.kind]),
   lines |-> IF r.kind = "written" THEN Append(l.lines, r.entry) ELSE l.lines,
   thrown |-> IF r.kind = "error" THEN r ELSE NoError]

\* the logger as the variables hold it
LoggerNow == [calls |-> calls, lines |-> lines, thrown |-> thrown]

\* the variables take what a logger record holds
LoggerBecomes(l) ==
  /\ calls' = l.calls
  /\ lines' = l.lines
  /\ thrown' = l.thrown

\* one call of log by the caller
LogStep(level, message, metadata) ==
  LoggerBecomes(AfterLog(LoggerNow, config, level, message, metadata))

-----------------------------------------------------------------------------
(* A logger in use: createLogger, then calls of its methods *)

\* logger calls in a run
MaxCalls == 2

\* metadata values: the five primitive kinds, a nested object, an array
PrimitiveValues == {NonNumber, Num(1), Bool(TRUE), Null, Undefined}

\* metadata objects as their entries in key order; the keys are none of the
\* entry's own (timestamp, level, message, service, module)
MetadataSamples ==
  {<<>>}
  \cup {<<[key |-> "user", value |-> v]>> :
          v \in PrimitiveValues \cup {NestedObject, ArrayValue}}
  \cup {<<[key |-> "user", value |-> p[1]], [key |-> "ids", value |-> p[2]]>> :
          p \in {<<NonNumber, Num(1)>>, <<NonNumber, ArrayValue>>,
                 <<NestedObject, NonNumber>>, <<NestedObject, ArrayValue>>,
                 <<ArrayValue, NestedObject>>, <<ArrayValue, Null>>}}

\* LOG_LEVEL: unset, empty, the names in either case, a reverse-mapping key,
\* a word that is no level
LogLevelEnvValues ==
  {UndefinedModel, Str(<<>>),
   Str(<<"E", "R", "R", "O", "R">>), Str(<<"w", "a", "r", "n">>),
   Str(<<"I", "N", "F", "O">>), Str(<<"d", "e", "b", "u", "g">>),
   Str(<<"T", "r", "a", "c", "e">>), Str(<<"1">>),
   Str(<<"V", "E", "R", "B", "O", "S", "E">>)}

\* options of createLogger: minLevel left out or one of the five levels
LoggerOptionSamples ==
  [module : {""}, minLevel : {Undefined} \cup {Num(n) : n \in 0..4}]

LoggingInit ==
  /\ CalculatorsIdle
  /\ HttpIdle
  /\ RetryIdle
  /\ HealthIdle
  /\ BatchIdle
  /\ env \in LogLevelEnvValues
  /\ loggerOptions \in LoggerOptionSamples
  /\ config = createLogger("svc", loggerOptions, env)
  /\ calls = <<>>
  /\ lines = <<>>
  /\ thrown = NoError

\* logger.error(message, metadata)
LoggerError ==
  /\ Len(calls) < MaxCalls
  /\ \E metadata \in MetadataSamples : LogStep(LogLevel.ERROR, "m", metadata)
  /\ UNCHANGED <<calcVars, loggerSetup, httpVars, retryVars, healthVars, batchVars>>

\* logger.warn(message, metadata)
LoggerWarn ==
  /\ Len(calls) < MaxCalls
  /\ \E metadata \in MetadataSamples : LogStep(LogLevel.WARN, "m", metadata)
  /\ UNCHANGED <<calcVars, loggerSetup, httpVars, retryVars, healthVars, batchVars>>

\* logger.info(message, metadata)
LoggerInfo ==
  /\ Len(calls) < MaxCalls
  /\ \E metadata \in MetadataSamples : LogStep(LogLevel.INFO, "m", metadata)
  /\ UNCHANGED <<calcVars, loggerSetup, httpVars, retryVars, healthVars, batchVars>>

\* logger.debug(message, metadata)
LoggerDebug ==
  /\ Len(calls) < MaxCalls
  /\ \E metadata \in MetadataSamples : LogStep(LogLevel.DEBUG, "m", metadata)
  /\ UNCHANGED <<calcVars, loggerSetup, httpVars, retryVars, healthVars, batchVars>>

\* logger.trace(message, metadata)
LoggerTrace ==
  /\ Len(calls) < MaxCalls
  /\ \E metadata \in MetadataSamples : LogStep(LogLevel.TRACE, "m", metadata)
  /\ UNCHANGED <<calcVars, loggerSetup, httpVars, retryVars, healthVars, batchVars>>

LoggingNext ==
  \/ LoggerError \/ LoggerWarn \/ LoggerInfo \/ LoggerDebug \/ LoggerTrace

Logging == LoggingInit /\ [][LoggingNext]_vars

-----------------------------------------------------------------------------
(* What the claims read from a logger's state *)

\* the keys of a metadata object whose value is a nested object or an array
NestedKeys(metadata) ==
  {metadata[i].key : i \in {j \in DOMAIN metadata :
                              metadata[j].value.t \in {"object", "array"}}}

\* the calls that handed an entry to outputLog
WrittenCalls == {i \in DOMAIN calls : calls[i].outcome = "written"}

\* C21: every call of a logger method whose metadata holds a nested object or
\* an array throws an error that names an offending key, and writes no line:
\* the calls with such metadata all threw, the lines are those of the other
\* calls, and after such a call the error thrown names one of its nested keys.
C21_NestedMetadataThrows ==
  /\ \A i \in DOMAIN calls :
       NestedKeys(calls[i].metadata) # {} => calls[i].outcome = "error"
  /\ Len(lines) = Cardinality(WrittenCalls)
  /\ calls # <<>> /\ NestedKeys(calls[Len(calls)].metadata) # {}
       => /\ thrown.kind = "error"
          /\ thrown.key \in NestedKeys(calls[Len(calls)].metadata)

\* LOG_LEVEL holds one of the five level names, in either letter case
ValidLogLevelEnv ==
  /\ ~Falsy(env)
  /\ \E n \in DOMAIN LogLevelKeys : LogLevelKeys[n] = ToUpperCase(env.s)

\* the level LOG_LEVEL names
LogLevelOfEnv ==
  (CHOOSE n \in DOMAIN LogLevelKeys : LogLevelKeys[n] = ToUpperCase(env.s)) - 1

\* the minimum level as documented: a valid LOG_LEVEL, else options.minLevel,
\* else INFO
DocumentedMinLevel ==
  IF ValidLogLevelEnv THEN LogLevelOfEnv
  ELSE IF loggerOptions.minLevel # Undefined THEN loggerOptions.minLevel.v
  ELSE LogLevel.INFO

\* C22: a message is emitted exactly when its level is at least as severe as
\* the configured minimum: every call with flat metadata has written a line
\* if and only if its level is not above the valid LOG_LEVEL, or else
\* options.minLevel (any of ERROR..TRACE), or else INFO.
C22_EmitsAtOrAboveMinLevel ==
  \A i \in DOMAIN calls :
    NestedKeys(calls[i].metadata) = {}
      => (calls[i].outcome = "written" <=> calls[i].level <= DocumentedMinLevel)

-----------------------------------------------------------------------------
(* HTTP logging middleware: createHttpLoggingMiddleware                  *)

\* options.isHealthCheck left out
NoFunction == [t |-> "undefined", paths |-> {}]

\* a function of the path that is true on these paths
PathTest(paths) == [t |-> "function", paths |-> paths]

\* the options after destructuring with their defaults
quietHealthChecks == OrDefault(httpOptions.quietHealthChecks, 1) # 0

isHealthCheck(path) ==
  IF httpOptions.isHealthCheck = NoFunction
  THEN path = "/health"
  ELSE path \in httpOptions.isHealthCheck.paths

\* a string whose text is fixed by a number: the request ID of crypto.randomUUID()
TextOf(n) == [t |-> "string", v |-> n]

\* const baseMetadata = { request_id, http_method, http_path, isHealthCheck }
baseMetadata(id, isHealthCheckRequest) ==
  <<[key |-> "request_id", value |-> TextOf(id)],
    [key |-> "http_method", value |-> NonNumber],
    [key |-> "http_path", value |-> NonNumber],
    [key |-> "isHealthCheck", value |-> Bool(isHealthCheckRequest)]>>

\* { ...baseMetadata, http_status, duration_ms }; the clock is left out and
\* the duration is a number
responseMetadata(id, isHealthCheckRequest, status) ==
  baseMetadata(id, isHealthCheckRequest)
  \o <<[key |-> "http_status", value |-> Num(status)],
       [key |-> "duration_ms", value |-> Num(0)]>>

\* the value the downstream handler threw: an Error, or any other value
ErrorObject == [t |-> "Error", v |-> 0]

\* the metadata of the catch block
failureMetadata(id, isHealthCheckRequest, status, error) ==
  responseMetadata(id, isHealthCheckRequest, status)
  \o <<[key |-> "error_message", value |-> NonNumber],
       [key |-> "error_name", value |-> NonNumber],
       [key |-> "error_stack",
        value |-> IF error.t = "Error" THEN NonNumber ELSE Undefined]>>

\* the level of "HTTP request completed" with the health-check test first
completedLevel_QuietFirst(status, isHealthCheckRequest, quiet) ==
  IF isHealthCheckRequest /\ quiet THEN LogLevel.DEBUG
  ELSE IF status >= 500 THEN LogLevel.ERROR
  ELSE IF status >= 400 THEN LogLevel.WARN
  ELSE LogLevel.INFO


\* the level of "HTTP request completed" for a status
completedLevel(status, isHealthCheckRequest, quiet) ==
  IF status >= 500 THEN LogLevel.ERROR
  ELSE IF status >= 400 THEN LogLevel.WARN
  ELSE IF isHealthCheckRequest /\ quiet THEN LogLevel.DEBUG
  ELSE LogLevel.INFO

\* the level of "HTTP request received"
receivedLevel(isHealthCheckRequest, quiet) ==
  IF isHealthCheckRequest /\ quiet THEN LogLevel.DEBUG ELSE LogLevel.INFO

\* the catch block: logs the failure at ERROR; its throw follows
catchBlock(l, id, isHealthCheckRequest, responseStatus, error) ==
  AfterLog(l, config, LogLevel.ERROR, "HTTP request failed",
           failureMetadata(id, isHealthCheckRequest,
                           IF responseStatus # 0 THEN responseStatus ELSE 500,
                           error))

\* a request not yet received
IdleRequest ==
  [state |-> "idle", path |-> "", isHealthCheck |-> FALSE, status |-> 0,
   error |-> NoError, rethrown |-> NoError]

\* requests passing through the middleware
MaxRequests == 2

\* ctx.response.status as the downstream handler left it; 0 is none set
StatusSamples == {0, 200, 302, 399, 400, 404, 499, 500, 503}

PathSamples == {"/health", "/ready", "/api"}

HttpOptionSamples ==
  [quietHealthChecks : {Undefined, Bool(TRUE), Bool(FALSE)},
   isHealthCheck : {NoFunction, PathTest({"/health", "/ready"})}]

\* LOG_LEVEL settings of the service the middleware runs in
HttpEnvValues ==
  {UndefinedModel, Str(<<"E", "R", "R", "O", "R">>),
   Str(<<"d", "e", "b", "u", "g">>)}

\* createHttpLoggingMiddleware(serviceName, options)
HttpLoggingInit ==
  /\ CalculatorsIdle
  /\ RetryIdle
  /\ HealthIdle
  /\ BatchIdle
  /\ env \in HttpEnvValues
  /\ loggerOptions = [module |-> "http:middleware", minLevel |-> Undefined]
  /\ config = createLogger("svc", loggerOptions, env)
  /\ calls = <<>>
  /\ lines = <<>>
  /\ thrown = NoError
  /\ httpOptions \in HttpOptionSamples
  /\ requests = [id \in 1..MaxRequests |-> IdleRequest]

\* the middleware up to await next(): the request is logged as received
MiddlewareEnter(id) ==
  /\ requests[id].state = "idle"
  /\ \E path \in PathSamples :
       LET isHealthCheckRequest == isHealthCheck(path)
           l == AfterLog(LoggerNow, config,
                         receivedLevel(isHealthCheckRequest, quietHealthChecks),
                         "HTTP request received",
                         baseMetadata(id, isHealthCheckRequest))
       IN /\ LoggerBecomes(l)
          /\ requests' =
               [requests EXCEPT ![id] =
                  [@ EXCEPT !.path = path,
                            !.isHealthCheck = isHealthCheckRequest,
                            !.state = IF l.thrown = NoError
                                      THEN "awaiting" ELSE "thrown",
                            !.rethrown = l.thrown]]
  /\ UNCHANGED <<calcVars, loggerSetup, httpOptions, retryVars, healthVars,
                 batchVars>>

\* next() resolves: the request is logged as completed; an error thrown by
\* that log call is inside the try and reaches the catch block
NextResolves(id) ==
  /\ requests[id].state = "awaiting"
  /\ \E responseStatus \in StatusSamples :
       LET status == IF responseStatus # 0 THEN responseStatus ELSE 200
           req == requests[id]
           l == AfterLog(LoggerNow, config,
                         completedLevel(status, req.isHealthCheck,
                                        quietHealthChecks),
                         "HTTP request completed",
                         responseMetadata(id, req.isHealthCheck, status))
       IN IF l.thrown = NoError
          THEN /\ LoggerBecomes(l)
               /\ requests' = [requests EXCEPT ![id] =
                                 [@ EXCEPT !.state = "returned",
                                           !.status = status]]
          ELSE /\ LoggerBecomes(catchBlock(l, id, req.isHealthCheck,
                                           responseStatus, l.thrown))
               /\ requests' = [requests EXCEPT ![id] =
                                 [@ EXCEPT !.state = "thrown",
                                           !.status = responseStatus,
                                           !.error = l.thrown,
                                           !.rethrown = l.thrown]]
  /\ UNCHANGED <<calcVars, loggerSetup, httpOptions, retryVars, healthVars,
                 batchVars>>

\* next() rejects: the catch block logs the failure and rethrows the error
NextRejects(id) ==
  /\ requests[id].state = "awaiting"
  /\ \E responseStatus \in {0, 404, 503}, error \in {ErrorObject, NonNumber} :
       /\ LoggerBecomes(catchBlock(LoggerNow, id, requests[id].isHealthCheck,
                                   responseStatus, error))
       /\ requests' = [requests EXCEPT ![id] =
                         [@ EXCEPT !.state = "thrown",
                                   !.status = responseStatus,
                                   !.error = error,
                                   !.rethrown = error]]
  /\ UNCHANGED <<calcVars, loggerSetup, httpOptions, retryVars, healthVars,
                 batchVars>>

HttpLoggingNext ==
  \E id \in 1..MaxRequests :
    \/ MiddlewareEnter(id)
    \/ NextResolves(id)
    \/ NextRejects(id)

HttpLogging == HttpLoggingInit /\ [][HttpLoggingNext]_vars

-----------------------------------------------------------------------------
(* What the claims read from the middleware's state *)

\* the log calls the middleware made for a request, by their message
CallsFor(id, message) ==
  {i \in DOMAIN calls :
     /\ calls[i].message = message
     /\ calls[i].metadata[1].value = TextOf(id)}

\* the level documented for a completed request
DocumentedLevel(status, isHealthCheckRequest) ==
  IF status >= 500 THEN LogLevel.ERROR
  ELSE IF status >= 400 THEN LogLevel.WARN
  ELSE IF isHealthCheckRequest /\ quietHealthChecks THEN LogLevel.DEBUG
  ELSE LogLevel.INFO

\* C23: a request whose handler returned is logged as completed once, at
\* ERROR for a status of 500 or more, WARN for 400-499, otherwise INFO, or
\* DEBUG for a health check with quietHealthChecks; a request whose handler
\* threw is logged once at ERROR as failed, never as completed, and the
\* error rethrown is the one the handler threw.
C23_StatusChoosesLevel ==
  \A id \in DOMAIN requests :
    LET req == requests[id]
        completed == CallsFor(id, "HTTP request completed")
        failed == CallsFor(id, "HTTP request failed")
    IN /\ req.state = "returned"
            => /\ Cardinality(completed) = 1
               /\ failed = {}
               /\ \A i \in completed :
                    /\ calls[i].level = DocumentedLevel(req.status, req.isHealthCheck)
                    /\ calls[i].metadata[5].value = Num(req.status)
       /\ req.state = "thrown"
            => /\ completed = {}
               /\ Cardinality(failed) = 1
               /\ \A i \in failed : calls[i].level = LogLevel.ERROR
               /\ req.rethrown = req.error
       /\ req.state \in {"idle", "awaiting"}
            => completed = {} /\ failed = {}

\* a quiet health check answered with 404 was logged at WARN, and another
\* request's handler threw an Error and was logged as failed
C23_Witness ==
  \E id, other \in DOMAIN requests :
    /\ requests[id].state = "returned"
    /\ requests[id].isHealthCheck /\ quietHealthChecks
    /\ requests[id].status = 404
    /\ \E i \in CallsFor(id, "HTTP request completed") :
         calls[i].level = LogLevel.WARN
    /\ requests[other].state = "thrown"
    /\ requests[other].rethrown = ErrorObject
    /\ CallsFor(other, "HTTP request failed") # {}

-----------------------------------------------------------------------------
(* withRetry(fn, delays, operationName)                                  *)

\* a value fn rejected with: an Error or another value; v stands for its message
ErrorWith(n) == [t |-> "Error", v |-> n]

\* error instanceof Error ? error.message : String(error)
errorMessageOf(error) == error.v

\* the cause taken from the first message instead of the error at hand
lastErrorOf_FromFirstMessage(error) ==
  IF attemptErrors = <<>> THEN ErrorWith(errorMessageOf(error))
  ELSE ErrorWith(attemptErrors[1])


\* error instanceof Error ? error : new Error(errorMessage)
lastErrorOf(error) ==
  IF error.t = "Error" THEN error ELSE ErrorWith(errorMessageOf(error))

\* new RetryExhaustedError(operationName, attempts, attemptErrors, lastError)
RetryExhaustedError(operationName, attempts, errors, lastError) ==
  [kind |-> "error", name |-> "RetryExhaustedError",
   operationName |-> operationName, attempts |-> attempts,
   attemptErrors |-> errors, cause |-> lastError]

\* new Error(`${operationName}: unreachable code in retry loop`)
UnreachableError ==
  [kind |-> "error", name |-> "Error", operationName |-> "op", attempts |-> 0,
   attemptErrors |-> <<>>, cause |-> NoError]

\* the value withRetry returned
ReturnedValue(value) == [kind |-> "returned", value |-> value]

\* const totalAttempts = delays.length + 1
totalAttempts == Len(delays) + 1

\* the metadata of the three log calls: flat, strings and numbers
retrySuccessMetadata ==
  <<[key |-> "operation", value |-> NonNumber],
    [key |-> "operation_name", value |-> NonNumber],
    [key |-> "successful_attempt", value |-> Num(attempt)],
    [key |-> "total_attempts", value |-> Num(attempt)],
    [key |-> "previous_errors", value |-> NonNumber]>>

retryExhaustedMetadata ==
  <<[key |-> "operation", value |-> NonNumber],
    [key |-> "operation_name", value |-> NonNumber],
    [key |-> "attempts", value |-> Num(attempt)],
    [key |-> "error_history", value |-> NonNumber]>>

retryFailedMetadata(delayMs) ==
  <<[key |-> "operation", value |-> NonNumber],
    [key |-> "operation_name", value |-> NonNumber],
    [key |-> "attempt", value |-> Num(attempt)],
    [key |-> "max_attempts", value |-> Num(totalAttempts)],
    [key |-> "delay_ms", value |-> Num(delayMs)],
    [key |-> "error_message", value |-> NonNumber]>>

\* the catch block waiting the first delay after every failed attempt
CatchAttempt_FirstDelayAlways(l, error) ==
  LET errorMessage == errorMessageOf(error)
      errors == Append(attemptErrors, errorMessage)
  IN /\ attemptErrors' = errors
     /\ IF attempt = totalAttempts
        THEN /\ LoggerBecomes(AfterLog(l, config, LogLevel.ERROR,
                                       "failed after all retries",
                                       retryExhaustedMetadata))
             /\ retryResult' = RetryExhaustedError("op", attempt, errors,
                                                   lastErrorOf(error))
             /\ retryPc' = "thrown"
             /\ timers' = timers
        ELSE /\ LoggerBecomes(AfterLog(l, config, LogLevel.WARN,
                                       "failed, retrying",
                                       retryFailedMetadata(delays[1])))
             /\ retryResult' = retryResult
             /\ retryPc' = "waiting"
             /\ timers' = Append(timers, delays[1])


\* the catch block of an attempt, entered with the logger as l: the message
\* is pushed; the last attempt logs and throws RetryExhaustedError, any
\* other logs and starts the timer of its delay
CatchAttempt(l, error) ==
  LET errorMessage == errorMessageOf(error)
      errors == Append(attemptErrors, errorMessage)
  IN /\ attemptErrors' = errors
     /\ IF attempt = totalAttempts
        THEN /\ LoggerBecomes(AfterLog(l, config, LogLevel.ERROR,
                                       "failed after all retries",
                                       retryExhaustedMetadata))
             /\ retryResult' = RetryExhaustedError("op", attempt, errors,
                                                   lastErrorOf(error))
             /\ retryPc' = "thrown"
             /\ timers' = timers
        ELSE /\ LoggerBecomes(AfterLog(l, config, LogLevel.WARN,
                                       "failed, retrying",
                                       retryFailedMetadata(delays[attempt])))
             /\ retryResult' = retryResult
             /\ retryPc' = "waiting"
             /\ timers' = Append(timers, delays[attempt])

\* attempts a call may make beyond the first
MaxDelays == 2

\* the delays argument: up to MaxDelays delays of 100 or 200 ms
DelaySamples ==
  UNION {[1..n -> {100, 200}] : n \in 0..MaxDelays}

\* what fn resolves with, what it rejects with
ValueSamples == {1, 2}

RejectionSamples == {ErrorWith(1), ErrorWith(2), [t |-> "string", v |-> 1]}

\* LOG_LEVEL of the process that imports the module
RetryEnvValues == {UndefinedModel, Str(<<"E", "R", "R", "O", "R">>)}

\* withRetry(fn, delays, "op") has invoked fn for the first attempt; the
\* module's logger is createLogger("retry", { module: "retry" })
RetryInit ==
  /\ CalculatorsIdle
  /\ HttpIdle
  /\ HealthIdle
  /\ BatchIdle
  /\ env \in RetryEnvValues
  /\ loggerOptions = [module |-> "retry", minLevel |-> Undefined]
  /\ config = createLogger("retry", loggerOptions, env)
  /\ calls = <<>>
  /\ lines = <<>>
  /\ thrown = NoError
  /\ delays \in DelaySamples
  /\ attempt = 1
  /\ attemptErrors = <<>>
  /\ invoked = <<>>
  /\ timers = <<>>
  /\ retryPc = "calling"
  /\ retryResult = NoResult

\* await fn() resolves: after a retry the success is logged, inside the try,
\* and the value is returned
FnResolves ==
  /\ retryPc = "calling"
  /\ \E value \in ValueSamples :
       /\ invoked' = Append(invoked, ReturnedValue(value))
       /\ LET l == IF attempt > 1
                   THEN AfterLog(LoggerNow, config, LogLevel.INFO,
                                 "succeeded after retry", retrySuccessMetadata)
                   ELSE LoggerNow
          IN IF l.thrown = NoError \/ attempt = 1
             THEN /\ LoggerBecomes(l)
                  /\ retryResult' = ReturnedValue(value)
                  /\ retryPc' = "returned"
                  /\ UNCHANGED <<attemptErrors, timers>>
             ELSE CatchAttempt(l, ErrorWith(0))
  /\ UNCHANGED <<calcVars, loggerSetup, httpVars, healthVars, batchVars,
                 delays, attempt>>

\* await fn() rejects, or fn throws
FnRejects ==
  /\ retryPc = "calling"
  /\ \E error \in RejectionSamples :
       /\ invoked' = Append(invoked, error)
       /\ CatchAttempt(LoggerNow, error)
  /\ UNCHANGED <<calcVars, loggerSetup, httpVars, healthVars, batchVars,
                 delays, attempt>>

\* the timer fires: attempt++, and the loop invokes fn again while
\* attempt <= totalAttempts; past the loop stands the throw of a plain Error
TimerFires ==
  /\ retryPc = "waiting"
  /\ attempt' = attempt + 1
  /\ IF attempt + 1 <= totalAttempts
     THEN retryPc' = "calling" /\ retryResult' = retryResult
     ELSE retryPc' = "thrown" /\ retryResult' = UnreachableError
  /\ UNCHANGED <<calcVars, loggerVars, httpVars, healthVars, batchVars,
                 delays, attemptErrors, invoked, timers>>

RetryNext == FnResolves \/ FnRejects \/ TimerFires

Retry == RetryInit /\ [][RetryNext]_vars

-----------------------------------------------------------------------------
(* What the claims read from a call of withRetry *)

\* the invocations of fn that resolved, the invocations that rejected
Succeeded == {i \in DOMAIN invoked : "kind" \in DOMAIN invoked[i]}

Failed == DOMAIN invoked \ Succeeded

\* C24: fn is invoked one at a time and at most delays.length + 1 times; a
\* success is the last invocation and its value is what withRetry returns;
\* the waits are delays[k-1] after the k-th failure for k <= delays.length,
\* in order, and none follows the final attempt.
C24_RetrySchedule ==
  /\ attempt <= Len(delays) + 1
  /\ Len(invoked) = IF retryPc = "calling" THEN attempt - 1 ELSE attempt
  /\ \A i \in Succeeded :
       /\ i = Len(invoked)
       /\ retryPc = "returned"
       /\ retryResult = invoked[i]
  /\ retryPc = "returned" => Succeeded # {}
  /\ Len(timers) = Cardinality({k \in Failed : k <= Len(delays)})
  /\ timers = SubSeq(delays, 1, Len(timers))
  /\ retryPc = "calling" => Len(timers) = attempt - 1
  /\ retryPc = "thrown" => Len(timers) = Len(delays)

\* the third attempt succeeded after waits of 100 and 200 ms
C24_Witness ==
  /\ delays = <<100, 200>>
  /\ retryPc = "returned"
  /\ Len(invoked) = 3
  /\ Failed = {1, 2}
  /\ timers = <<100, 200>>
  /\ retryResult = ReturnedValue(2)

\* every one of the delays.length + 1 attempts failed
AllAttemptsFailed == Failed = 1..(Len(delays) + 1)

\* what a RetryExhaustedError carries apart from its cause, and that the
\* plain Error behind the loop is never thrown
ExhaustedErrorCarriesAttempts ==
  /\ retryResult # UnreachableError
  /\ AllAttemptsFailed
       => /\ retryPc = "thrown"
          /\ retryResult.name = "RetryExhaustedError"
          /\ retryResult.attempts = Len(delays) + 1
          /\ retryResult.attemptErrors =
               [i \in 1..(Len(delays) + 1) |-> invoked[i].v]

\* C25 as stated: when every attempt has failed withRetry throws
\* RetryExhaustedError with attempts = delays.length + 1, one message per
\* attempt in attempt order, and the last attempt's error as its cause; the
\* plain "unreachable code" Error is never thrown.
C25_ExhaustedCauseIsLastError ==
  /\ ExhaustedErrorCarriesAttempts
  /\ AllAttemptsFailed => retryResult.cause = invoked[Len(invoked)]

\* C25 as the code has it: the cause is the last attempt's error when that
\* is an Error, and otherwise a new Error made of its message.
C25_ExhaustedCauseIsErrorOfLast ==
  /\ ExhaustedErrorCarriesAttempts
  /\ AllAttemptsFailed
       => LET last == invoked[Len(invoked)] IN
          /\ retryResult.cause.t = "Error"
          /\ retryResult.cause.v = last.v
          /\ last.t = "Error" => retryResult.cause = last

\* three attempts failed, the last one with a value that is no Error, after
\* an Error with another message
C25_Witness ==
  /\ Len(delays) = 2
  /\ AllAttemptsFailed
  /\ invoked[1] = ErrorWith(2)
  /\ invoked[3].t = "string"
  /\ retryResult.attemptErrors = <<2, invoked[2].v, 1>>
  /\ retryResult.cause = ErrorWith(1)

-----------------------------------------------------------------------------
(* HealthMiddleware: recordRequest, getHealthStatus, reset               *)
(*                                                                       *)
(* The responseTimes array is held as runs: a run is count entries in a  *)
(* row with the same timestamp, responseTime and success. The logger     *)
(* calls of the methods carry flat metadata and touch no field of the    *)
(* object; they are left out.                                            *)

\* private readonly maxResponseTimeEntries = 1000
maxResponseTimeEntries == 1000

\* private readonly responseTimeWindowMs = 5 * 60 * 1000
responseTimeWindowMs == 5 * 60 * 1000

\* count entries { timestamp, responseTime, success } in a row
Run(timestamp, responseTime, success, count) ==
  [timestamp |-> timestamp, responseTime |-> responseTime,
   success |-> success, count |-> count]

\* array.length
RECURSIVE Length(_)
Length(runs) ==
  IF runs = <<>> THEN 0 ELSE runs[1].count + Length(Tail(runs))

\* array.push(entry), count times
Push(runs, timestamp, responseTime, success, count) ==
  IF /\ runs # <<>>
     /\ runs[Len(runs)].timestamp = timestamp
     /\ runs[Len(runs)].responseTime = responseTime
     /\ runs[Len(runs)].success = success
  THEN [runs EXCEPT ![Len(runs)].count = @ + count]
  ELSE Append(runs, Run(timestamp, responseTime, success, count))

\* array.filter(entry => entry.timestamp > cutoffTime)
RECURSIVE NewerThan(_, _)
NewerThan(runs, cutoffTime) ==
  IF runs = <<>> THEN <<>>
  ELSE IF runs[1].timestamp > cutoffTime
       THEN <<runs[1]>> \o NewerThan(Tail(runs), cutoffTime)
       ELSE NewerThan(Tail(runs), cutoffTime)

\* array.slice(-n) of an array longer than n: the entries before the last n go
RECURSIVE SliceLast(_, _)
SliceLast(runs, n) ==
  IF n = 0 \/ runs = <<>> THEN <<>>
  ELSE LET last == runs[Len(runs)]
           front == SubSeq(runs, 1, Len(runs) - 1)
       IN IF last.count >= n
          THEN <<[last EXCEPT !.count = n]>>
          ELSE SliceLast(front, n - last.count) \o <<last>>

\* the clean-up keeping the entries that are exactly the window old
cleanupResponseTimes_InclusiveCutoff(runs, currentTime) ==
  LET cutoffTime == currentTime - responseTimeWindowMs
      recent == NewerThan(runs, cutoffTime - 1)
  IN IF Length(recent) > maxResponseTimeEntries
     THEN SliceLast(recent, maxResponseTimeEntries)
     ELSE recent


cleanupResponseTimes(runs, currentTime) ==
  LET cutoffTime == currentTime - responseTimeWindowMs
      recent == NewerThan(runs, cutoffTime)
  IN IF Length(recent) > maxResponseTimeEntries
     THEN SliceLast(recent, maxResponseTimeEntries)
     ELSE recent

\* the fields recordRequest writes
Fields(total, successful, runs) ==
  [totalRequests |-> total, successfulRequests |-> successful,
   responseTimes |-> runs]

FieldsNow == Fields(totalRequests, successfulRequests, responseTimes)

\* recordRequest(responseTimeMs, success) at the time currentTime
recordRequest(f, currentTime, responseTimeMs, success) ==
  Fields(f.totalRequests + 1,
         IF success THEN f.successfulRequests + 1 ELSE f.successfulRequests,
         cleanupResponseTimes(
           Push(f.responseTimes, currentTime, responseTimeMs, success, 1),
           currentTime))

\* the calls in a row with the total read off the buffer after the clean-up
recordRequests_TotalFromBuffer(count, f, currentTime, responseTimeMs, success) ==
  LET kept == cleanupResponseTimes(
                Push(f.responseTimes, currentTime, responseTimeMs, success, count),
                currentTime)
  IN Fields(IF f.totalRequests + count > Length(kept)
            THEN Length(kept)
            ELSE f.totalRequests + count,
            IF success THEN f.successfulRequests + count
            ELSE f.successfulRequests,
            kept)


\* recordRequest called count times with the same arguments within one
\* millisecond: each clean-up keeps the newest entries of the window, so
\* the clean-up of the last call leaves what they leave one after another
recordRequests(count, f, currentTime, responseTimeMs, success) ==
  Fields(f.totalRequests + count,
         IF success THEN f.successfulRequests + count
         ELSE f.successfulRequests,
         cleanupResponseTimes(
           Push(f.responseTimes, currentTime, responseTimeMs, success, count),
           currentTime))

\* recordRequest called count times, one call after the other
RECURSIVE recordRequestRepeated(_, _, _, _, _)
recordRequestRepeated(count, f, currentTime, responseTimeMs, success) ==
  IF count = 0 THEN f
  ELSE recordRequestRepeated(
         count - 1, recordRequest(f, currentTime, responseTimeMs, success),
         currentTime, responseTimeMs, success)

\* getRecentResponseTimes(currentTime): the response times kept as runs
getRecentResponseTimes(runs, currentTime) ==
  NewerThan(runs, currentTime - responseTimeWindowMs)

\* the sum of the response times
RECURSIVE SumOf(_)
SumOf(runs) ==
  IF runs = <<>> THEN 0
  ELSE runs[1].responseTime * runs[1].count + SumOf(Tail(runs))

\* a number as a fraction n / d
Fraction(n, d) == [n |-> n, d |-> d]

\* calculateAverageResponseTime
calculateAverageResponseTime(runs) ==
  IF Length(runs) = 0 THEN Fraction(0, 1)
  ELSE Fraction(SumOf(runs), Length(runs))

\* the entries of runs with a response time of at most v
RECURSIVE CountUpTo(_, _)
CountUpTo(runs, v) ==
  IF runs = <<>> THEN 0
  ELSE (IF runs[1].responseTime <= v THEN runs[1].count ELSE 0)
       + CountUpTo(Tail(runs), v)

\* calculatePercentile: sorted[Math.max(0, Math.ceil(p / 100 * length) - 1)]
calculatePercentile(runs, percentile) ==
  IF Length(runs) = 0 THEN 0
  ELSE LET length == Length(runs)
           ceil == (percentile * length + 99) \div 100
           index == Max(0, ceil - 1)
           values == {runs[i].responseTime : i \in DOMAIN runs}
       IN CHOOSE v \in values :
            /\ CountUpTo(runs, v) > index
            /\ \A w \in values : w < v => CountUpTo(runs, w) <= index

\* determineHealthStatus with the thresholds themselves on the worse side
determineHealthStatus_AtThreshold(successRate, avgResponseTime) ==
  IF \/ successRate.n <= 90 * successRate.d
     \/ avgResponseTime.n >= 2000 * avgResponseTime.d
  THEN "unhealthy"
  ELSE IF \/ successRate.n <= 95 * successRate.d
          \/ avgResponseTime.n >= 500 * avgResponseTime.d
  THEN "degraded"
  ELSE "healthy"


\* determineHealthStatus(successRate, avgResponseTime), both as fractions
determineHealthStatus(successRate, avgResponseTime) ==
  IF \/ successRate.n < 90 * successRate.d
     \/ avgResponseTime.n > 2000 * avgResponseTime.d
  THEN "unhealthy"
  ELSE IF \/ successRate.n < 95 * successRate.d
          \/ avgResponseTime.n > 500 * avgResponseTime.d
  THEN "degraded"
  ELSE "healthy"

\* Math.round(x * 100) / 100 of a fraction x >= 0, in hundredths
RoundToHundredths(x) == (200 * x.n + x.d) \div (2 * x.d)

\* the data of getHealthStatus() at the time currentTime; the response
\* times and the success rate are in hundredths
getHealthStatus(f, started, currentTime) ==
  LET recentResponseTimes == getRecentResponseTimes(f.responseTimes, currentTime)
      avgResponseTime == calculateAverageResponseTime(recentResponseTimes)
      p95ResponseTime == calculatePercentile(recentResponseTimes, 95)
      successRate == IF f.totalRequests > 0
                     THEN Fraction(f.successfulRequests * 100, f.totalRequests)
                     ELSE Fraction(100, 1)
  IN [kind |-> "health",
      status |-> determineHealthStatus(successRate, avgResponseTime),
      uptime_percentage |-> 100,
      uptime_seconds |-> (currentTime - started) \div 1000,
      response_time_avg_ms |-> RoundToHundredths(avgResponseTime),
      response_time_p95_ms |-> 100 * p95ResponseTime,
      requests_total |-> f.totalRequests,
      requests_successful |-> f.successfulRequests,
      success_rate_percentage |-> RoundToHundredths(successRate)]

\* the latest time the clock reaches
MaxClock == 600000

\* groups of recordRequest calls between two resets
MaxBursts == 3

\* the clock moves by a millisecond short of the window, or by the window
ClockSteps == {responseTimeWindowMs - 1, responseTimeWindowMs}

\* calls of recordRequest made in a row
BurstSizes == {1, 9, 990}

\* response times in ms, on both sides of 500 and of 2000
ResponseTimeSamples == {100, 600, 2500}

\* new HealthMiddleware(serviceName)
HealthInit ==
  /\ CalculatorsIdle
  /\ LoggerIdle
  /\ HttpIdle
  /\ RetryIdle
  /\ BatchIdle
  /\ now = 0
  /\ startTime = 0
  /\ responseTimes = <<>>
  /\ totalRequests = 0
  /\ successfulRequests = 0
  /\ healthResponse = NoResult
  /\ recorded = <<>>

\* time passes; a response is read when it is returned, not later
ClockAdvances ==
  /\ \E step \in ClockSteps :
       /\ now + step <= MaxClock
       /\ now' = now + step
  /\ healthResponse' = NoResult
  /\ UNCHANGED <<calcVars, loggerVars, httpVars, retryVars, batchVars, startTime,
                 responseTimes, totalRequests, successfulRequests, recorded>>

\* recordRequest(responseTimeMs, success), once or several times in a row
RecordRequest ==
  /\ Len(recorded) < MaxBursts
  /\ \E count \in BurstSizes, responseTimeMs \in ResponseTimeSamples,
        success \in BOOLEAN :
       LET f == recordRequests(count, FieldsNow, now, responseTimeMs, success)
       IN /\ totalRequests' = f.totalRequests
          /\ successfulRequests' = f.successfulRequests
          /\ responseTimes' = f.responseTimes
          /\ recorded' = Append(recorded,
                                Run(now, responseTimeMs, success, count))
  /\ healthResponse' = NoResult
  /\ UNCHANGED <<calcVars, loggerVars, httpVars, retryVars, batchVars, now,
                 startTime>>

\* getHealthStatus()
GetHealthStatus ==
  /\ healthResponse' = getHealthStatus(FieldsNow, startTime, now)
  /\ UNCHANGED <<calcVars, loggerVars, httpVars, retryVars, batchVars, now,
                 startTime,
                 responseTimes, totalRequests, successfulRequests, recorded>>

\* reset()
Reset ==
  /\ startTime' = now
  /\ responseTimes' = <<>>
  /\ totalRequests' = 0
  /\ successfulRequests' = 0
  /\ healthResponse' = NoResult
  /\ recorded' = <<>>
  /\ UNCHANGED <<calcVars, loggerVars, httpVars, retryVars, batchVars, now>>

HealthNext == ClockAdvances \/ RecordRequest \/ GetHealthStatus \/ Reset

Health == HealthInit /\ [][HealthNext]_vars

\* calls in a row are what the calls one by one make of the fields
BurstIsRepeatedCalls ==
  \A count \in 1..3, responseTimeMs \in ResponseTimeSamples, success \in BOOLEAN :
    recordRequests(count, FieldsNow, now, responseTimeMs, success)
      = recordRequestRepeated(count, FieldsNow, now, responseTimeMs, success)

-----------------------------------------------------------------------------
(* What the claims read from a HealthMiddleware *)

\* the recordRequest calls since construction or reset(), equal neighbours
\* put together
RECURSIVE Joined(_)
Joined(runs) ==
  IF runs = <<>> THEN <<>>
  ELSE LET r == runs[Len(runs)]
       IN Push(Joined(SubSeq(runs, 1, Len(runs) - 1)),
               r.timestamp, r.responseTime, r.success, r.count)

\* the entries of buffer are the newest entries of history, in its order
IsNewestOf(buffer, history) ==
  LET skip == Len(history) - Len(buffer) IN
  /\ skip >= 0
  /\ \A i \in DOMAIN buffer :
       /\ buffer[i].timestamp = history[skip + i].timestamp
       /\ buffer[i].responseTime = history[skip + i].responseTime
       /\ buffer[i].success = history[skip + i].success
       /\ IF i = 1 THEN buffer[i].count <= history[skip + i].count
          ELSE buffer[i].count = history[skip + i].count

\* the time of the latest recordRequest
LatestRecordTime == recorded[Len(recorded)].timestamp

\* the calls recorded less than the window before the latest one
CallsInWindow ==
  LET inWindow == {i \in DOMAIN recorded :
                     recorded[i].timestamp > LatestRecordTime - responseTimeWindowMs}
      RECURSIVE Total(_)
      Total(S) == IF S = {} THEN 0
                  ELSE LET i == CHOOSE j \in S : TRUE
                       IN recorded[i].count + Total(S \ {i})
  IN Total(inWindow)

\* C26: after any recordRequest calls the buffer holds at most 1000 entries,
\* each newer than 5 minutes before the latest recordRequest, and they are
\* the most recent calls: the newest 1000 of the calls inside that window,
\* or all of them when they are fewer.
C26_BufferBounded ==
  /\ Length(responseTimes) <= 1000
  /\ recorded # <<>>
       => /\ \A i \in DOMAIN responseTimes :
               responseTimes[i].timestamp > LatestRecordTime - 5 * 60 * 1000
          /\ IsNewestOf(responseTimes, Joined(recorded))
          /\ Length(responseTimes) =
               IF CallsInWindow > 1000 THEN 1000 ELSE CallsInWindow

\* 9 calls at time 0 left the window, and of 1980 calls five minutes later
\* the first 980 were dropped for size
C26_Witness ==
  /\ Len(recorded) = 3
  /\ recorded[1].timestamp = 0 /\ recorded[1].count = 9
  /\ recorded[2].timestamp = 300000 /\ recorded[2].count = 990
  /\ recorded[3].timestamp = 300000 /\ recorded[3].count = 990
  /\ recorded[2].responseTime # recorded[3].responseTime
  /\ Len(responseTimes) = 2
  /\ responseTimes[1].count = 10
  /\ responseTimes[2].count = 990
  /\ totalRequests = 1989

\* the recordRequest calls since construction or reset(), and the
\* successful ones among them
RECURSIVE CallsRecorded(_, _)
CallsRecorded(runs, successOnly) ==
  IF runs = <<>> THEN 0
  ELSE (IF successOnly /\ ~runs[1].success THEN 0 ELSE runs[1].count)
       + CallsRecorded(Tail(runs), successOnly)

\* C27: 0 <= successfulRequests <= totalRequests; totalRequests is the number
\* of recordRequest calls since construction or the last reset(), whatever
\* the buffer has dropped; with no call since reset() both counters are 0,
\* the buffer is empty, and getHealthStatus reports requests_total = 0 and
\* success_rate_percentage = 100.
C27_CountersCountCalls ==
  /\ 0 <= successfulRequests
  /\ successfulRequests <= totalRequests
  /\ totalRequests = CallsRecorded(recorded, FALSE)
  /\ successfulRequests = CallsRecorded(recorded, TRUE)
  /\ recorded = <<>>
       => /\ totalRequests = 0
          /\ successfulRequests = 0
          /\ responseTimes = <<>>
          /\ healthResponse # NoResult
               => /\ healthResponse.requests_total = 0
                  /\ healthResponse.success_rate_percentage = 100 * 100

\* after a reset() five minutes or so into the run, 1989 calls have been
\* recorded, 1000 of them are in the buffer, and getHealthStatus reports 1989
C27_Witness ==
  /\ startTime > 0
  /\ totalRequests = 1989
  /\ successfulRequests = 990
  /\ Length(responseTimes) = 1000
  /\ healthResponse # NoResult
  /\ healthResponse.requests_total = 1989

\* the entries of an array recorded less than 5 minutes before now, and the
\* sum of their response times
RECURSIVE InWindow(_, _)
InWindow(runs, sum) ==
  IF runs = <<>> THEN 0
  ELSE (IF runs[1].timestamp > now - 5 * 60 * 1000
        THEN (IF sum THEN runs[1].responseTime ELSE 1) * runs[1].count
        ELSE 0)
       + InWindow(Tail(runs), sum)

\* the status documented for totalRequests, successfulRequests and the
\* response times of an array inside the window
DocumentedStatus(runs) ==
  LET count == InWindow(runs, FALSE)
      sum == InWindow(runs, TRUE)
      lowRate(percent) ==
        totalRequests > 0 /\ 100 * successfulRequests < percent * totalRequests
      slow(ms) == count > 0 /\ sum > ms * count
  IN IF lowRate(90) \/ slow(2000) THEN "unhealthy"
     ELSE IF lowRate(95) \/ slow(500) THEN "degraded"
     ELSE "healthy"

\* with no request recorded: healthy, average and p95 response time 0
HealthyWhenNothingRecorded ==
  healthResponse # NoResult /\ recorded = <<>>
    => /\ healthResponse.status = "healthy"
       /\ healthResponse.response_time_avg_ms = 0
       /\ healthResponse.response_time_p95_ms = 0

\* C28 as stated: the status follows the lifetime success rate and the
\* average response time of the requests of the last 5 minutes: unhealthy
\* below 90% or above 2000 ms, else degraded below 95% or above 500 ms, else
\* healthy; healthy with average and p95 0 when nothing is recorded.
C28_StatusFromWindowAverage ==
  /\ HealthyWhenNothingRecorded
  /\ healthResponse # NoResult
       => healthResponse.status = DocumentedStatus(recorded)

\* C28 as the code has it: the average is that of the entries the buffer
\* retains, at most the 1000 most recent, among those of the last 5 minutes.
C28_StatusFromRetainedAverage ==
  /\ HealthyWhenNothingRecorded
  /\ healthResponse # NoResult
       => healthResponse.status = DocumentedStatus(responseTimes)

\* 990 requests of 2500 ms were followed by 999 of 100 ms, all successful:
\* the buffer retains one of the first, and the status is healthy
C28_Witness ==
  /\ healthResponse # NoResult
  /\ healthResponse.status = "healthy"
  /\ totalRequests = 1989
  /\ successfulRequests = 1989
  /\ Len(responseTimes) = 2
  /\ responseTimes[1].responseTime = 2500 /\ responseTimes[1].count = 1
  /\ responseTimes[2].responseTime = 100 /\ responseTimes[2].count = 999
  /\ DocumentedStatus(recorded) = "degraded"

-----------------------------------------------------------------------------
(* countTokensAnthropicBatch(items, batchSize, delayBetweenBatchesMs, apiKey) *)
(* over the API-backed countTokensAnthropic                                   *)

\* a promise of the batch: not settled, rejected, or fulfilled with a count
Pending == -1

Rejected == -2

\* no request is started for the item
NotStarted == -3

\* input_tokens as the API answers for a text: a count fixed by the text
ApiTokens(text) ==
  CASE text = "a" -> 1
    [] text = "a b" -> 2
    [] text = "a b c" -> 3

\* countTokensAnthropic(text, key) when it resolves: 0 for the empty text
\* without a request, else the input_tokens of the response
countTokensAnthropic(text) ==
  IF text = "" THEN 0 ELSE ApiTokens(text)

\* the slice reaching one item further
batchSlice_OneMore(items, start, size) ==
  {i \in DOMAIN items : start < i /\ i <= start + size + 1}


\* the indexes, from 1, of items.slice(start, start + size)
batchSlice(items, start, size) ==
  {i \in DOMAIN items : start < i /\ i <= start + size}

\* the requests that are started and not settled
InFlight == {i \in DOMAIN batchPromises : batchPromises[i] = Pending}

\* every promise of the batch awaited is fulfilled
AllFulfilled ==
  \A i \in batchSlice(batchArgs.items, batchStart, batchArgs.batchSize) :
    batchPromises[i] >= 0

\* results.push(...batchResults): the results of the batch in item order
RECURSIVE PushBatch(_, _)
PushBatch(array, batch) ==
  IF batch = {} THEN array
  ELSE LET first == CHOOSE i \in batch : \A j \in batch : i <= j
       IN PushBatch(Append(array, [id |-> batchArgs.items[first].id,
                                   tokens |-> batchPromises[first]]),
                    batch \ {first})

\* the loop test at batchStart = start, the results array being array: the
\* next batch is mapped to its promises and Promise.all awaited, or the
\* array is returned
LoopAt(start, array) ==
  /\ batchStart' = start
  /\ IF start < Len(batchArgs.items)
     THEN /\ batchPromises' =
               [i \in DOMAIN batchPromises |->
                  IF i \in batchSlice(batchArgs.items, start, batchArgs.batchSize)
                  THEN Pending ELSE batchPromises[i]]
          /\ batchPc' = "awaiting"
          /\ batchOutcome' = batchOutcome
     ELSE /\ batchPromises' = batchPromises
          /\ batchPc' = "returned"
          /\ batchOutcome' = [kind |-> "returned", value |-> array]

\* items in a call
MaxItems == 3

\* items: distinct ids, texts empty or not
ItemSamples ==
  UNION {[1..n -> {[id |-> 1, text |-> ""], [id |-> 2, text |-> "a"],
                   [id |-> 3, text |-> "a b"], [id |-> 4, text |-> "a b c"]}] :
           n \in 0..MaxItems}

\* the arguments: batch sizes from 1; the key given, or missing everywhere
BatchArgSamples ==
  {a \in [items : ItemSamples, batchSize : 1..MaxItems,
          delayBetweenBatchesMs : {50}, apiKey : BOOLEAN] :
     \A i, j \in DOMAIN a.items : i < j => a.items[i].id < a.items[j].id}

\* a call about to be made
BatchInit ==
  /\ CalculatorsIdle
  /\ LoggerIdle
  /\ HttpIdle
  /\ RetryIdle
  /\ HealthIdle
  /\ batchArgs \in BatchArgSamples
  /\ batchPc = "called"
  /\ batchStart = 0
  /\ batchPromises = [i \in DOMAIN batchArgs.items |-> NotStarted]
  /\ results = <<>>
  /\ batchTimers = <<>>
  /\ batchOutcome = NoResult

\* the call up to its first await: getApiKey, then the loop
BatchCalled ==
  /\ batchPc = "called"
  /\ IF ~batchArgs.apiKey
     THEN /\ batchPc' = "thrown"
          /\ batchOutcome' = [kind |-> "error", value |-> <<>>]
          /\ UNCHANGED <<batchStart, batchPromises>>
     ELSE LoopAt(0, results)
  /\ UNCHANGED <<calcVars, loggerVars, httpVars, retryVars, healthVars,
                 batchArgs, results, batchTimers>>

\* a request of the batch is answered with a count
RequestFulfilled(i) ==
  /\ i \in InFlight
  /\ batchPromises' =
       [batchPromises EXCEPT ![i] = countTokensAnthropic(batchArgs.items[i].text)]
  /\ UNCHANGED <<calcVars, loggerVars, httpVars, retryVars, healthVars,
                 batchArgs, batchPc, batchStart, results, batchTimers,
                 batchOutcome>>

\* a request fails: the response is not ok or carries no input_tokens;
\* Promise.all rejects with the first failure and the call throws it
RequestRejected(i) ==
  /\ i \in InFlight
  /\ batchArgs.items[i].text # ""
  /\ batchPromises' = [batchPromises EXCEPT ![i] = Rejected]
  /\ IF batchPc = "awaiting"
     THEN /\ batchPc' = "thrown"
          /\ batchOutcome' = [kind |-> "error", value |-> <<>>]
     ELSE UNCHANGED <<batchPc, batchOutcome>>
  /\ UNCHANGED <<calcVars, loggerVars, httpVars, retryVars, healthVars,
                 batchArgs, batchStart, results, batchTimers>>

\* Promise.all resolves: the results are pushed; with more batches to come
\* the delay is started, otherwise the loop ends and the results are returned
BatchResolves ==
  /\ batchPc = "awaiting"
  /\ AllFulfilled
  /\ results' = PushBatch(results,
                          batchSlice(batchArgs.items, batchStart,
                                     batchArgs.batchSize))
  /\ IF batchStart + batchArgs.batchSize < Len(batchArgs.items)
     THEN /\ batchTimers' = Append(batchTimers, batchArgs.delayBetweenBatchesMs)
          /\ batchPc' = "delay"
          /\ UNCHANGED <<batchStart, batchPromises, batchOutcome>>
     ELSE /\ batchTimers' = batchTimers
          /\ LoopAt(batchStart + batchArgs.batchSize,
                    PushBatch(results,
                              batchSlice(batchArgs.items, batchStart,
                                         batchArgs.batchSize)))
  /\ UNCHANGED <<calcVars, loggerVars, httpVars, retryVars, healthVars,
                 batchArgs>>

\* the delay has elapsed: batchStart += batchSize, and the loop goes on
BatchTimerFires ==
  /\ batchPc = "delay"
  /\ LoopAt(batchStart + batchArgs.batchSize, results)
  /\ UNCHANGED <<calcVars, loggerVars, httpVars, retryVars, healthVars,
                 batchArgs, results, batchTimers>>

BatchNext ==
  \/ BatchCalled
  \/ \E i \in DOMAIN batchPromises : RequestFulfilled(i) \/ RequestRejected(i)
  \/ BatchResolves
  \/ BatchTimerFires

Batch == BatchInit /\ [][BatchNext]_vars

-----------------------------------------------------------------------------
(* What the claims read from a call of countTokensAnthropicBatch *)

\* the requests started so far
Started == {i \in DOMAIN batchPromises : batchPromises[i] # NotStarted}

\* the batch of an item, from 0
BatchOf(i) == (i - 1) \div batchArgs.batchSize

\* the batches of the call
BatchCount ==
  (Len(batchArgs.items) + batchArgs.batchSize - 1) \div batchArgs.batchSize

\* C29: the call returns one result per item, in item order, each with the
\* count of its own text, however the requests of a batch complete; at most
\* batchSize requests are in flight; a request of a batch is started only
\* when every request of the batches before is fulfilled and the delay after
\* each of them has been waited; and no delay follows the last batch.
C29_BatchesInOrder ==
  /\ batchPc = "returned"
       => /\ Len(results) = Len(batchArgs.items)
          /\ \A i \in DOMAIN results :
               /\ results[i].id = batchArgs.items[i].id
               /\ results[i].tokens =
                    IF batchArgs.items[i].text = "" THEN 0
                    ELSE ApiTokens(batchArgs.items[i].text)
          /\ batchOutcome.value = results
          /\ Len(batchTimers) = IF BatchCount = 0 THEN 0 ELSE BatchCount - 1
  /\ Cardinality(InFlight) <= batchArgs.batchSize
  /\ \A i, j \in InFlight : BatchOf(i) = BatchOf(j)
  /\ \A i \in Started :
       /\ \A j \in DOMAIN batchPromises :
            BatchOf(j) < BatchOf(i) => batchPromises[j] >= 0
       /\ Len(batchTimers) >= BatchOf(i)
  /\ batchPc = "delay" => InFlight = {}
  /\ Len(batchTimers) <= IF BatchCount = 0 THEN 0 ELSE BatchCount - 1
  /\ \A k \in DOMAIN batchTimers :
       batchTimers[k] = batchArgs.delayBetweenBatchesMs

\* three items in batches of two were counted, with one delay between the
\* batches and none after the second
C29_Witness ==
  /\ batchPc = "returned"
  /\ Len(batchArgs.items) = 3
  /\ batchArgs.batchSize = 2
  /\ batchTimers = <<50>>
  /\ results = <<[id |-> 2, tokens |-> 1], [id |-> 3, tokens |-> 2],
                 [id |-> 4, tokens |-> 3]>>

-----------------------------------------------------------------------------
(* C30 *)

\* C30: a model ID that isValidModelId reports as valid for a provider, and
\* so one that getAllModelIds lists, is priced by the calculator of that
\* provider: called with the ID and a valid usage record it returns a
\* breakdown, and does not throw the unknown-model error.
C30_ValidIdsArePriced ==
  (/\ provider \in LLMProvider
   /\ isValidModelId(model, provider)
   /\ Includes(getAllModelIds(provider), model)
   /\ ValidUsage
   /\ result # NoResult)
    => result.kind = "ok"

=============================================================================
